---- MODULE Spec2Model ----
(***************************************************************************)
(* Model of the files_manager service: the file controller (upload,       *)
(* publish/unpublish, content fetch), the file utilities it calls, and    *)
(* the thumbnail worker.  Requests run concurrently: every await that     *)
(* separates a read of the store from a later write is a separate step.   *)
(***************************************************************************)
EXTENDS Integers, Sequences, FiniteSets, Bags, TLC

\* ------------------------------------------------------------------ bounds

\* Most entries the store may hold.
MaxFiles == 2
\* Most requests in flight (between two of their awaits) at once.
MaxInflight == 2
\* Most uploads in flight at once in the content service.
MaxUploads == 1
\* Most jobs a producer, or uploads without a user, put on a queue.
MaxJobs == 1

\* Most jobs the producers put on the queue of the thumbnail service.
MaxRuns == 2

\* Most sign-ins that succeed.
MaxSignIns == 1

\* The entries of the largest store that is listed.
MaxListed == 45

\* ------------------------------------------------------------------ values

\* A value that is null or undefined in the JavaScript code.
Null == "null"
\* parentId 0, the root sentinel ('0' is converted to 0 by validateBody).
Root == "root"
\* A string that is no 12-byte / 24-hex ObjectId text.
BadId == "bad"
\* A well-formed ObjectId text that no document carries.
GhostId == "ghost"
\* The ObjectId that ObjectId(null) generates: new, so it equals no stored id.
FreshId == "fresh"

\* The token of a session whose user document was deleted, and that user.
StaleToken == "t3"
GoneUser == "u0"
\* The tokens uuidv4 gives to the sign-ins, in order of use.
TokenIds == <<"t4", "t5", "t6">>

\* The names uuidv4 gives to the contents written, in order of use.
Uuids == <<"p1", "p2", "p3", "p4", "p5", "p6", "p7">>
\* The ids the store assigns, in insertion order.
FileIds == <<"f1", "f2", "f3", "f4", "f5">>
\* The users collection (registration is outside this model).
Users == {"u1", "u2"}
\* The X-Token header values a request may carry; Null is no header.
Tokens == {"t1", "t2", Null}

\* The worker processes (Bull runs one job at a time in each).
Workers == {"w1"}

\* The two queues of the repository, by the name each is created with.
ControllerQueue == "fileQueue"
WorkerQueue == "thumbnail generation"
QueueNames == {ControllerQueue, WorkerQueue}

typesAllowed == {"file", "image", "folder"}
sizes == <<500, 250, 100>>
Sizes == {sizes[i] : i \in DOMAIN sizes}

\* ------------------------------------------------------------------ base64

B64Alphabet ==
  <<"A","B","C","D","E","F","G","H","I","J","K","L","M","N","O","P","Q","R","S",
    "T","U","V","W","X","Y","Z","a","b","c","d","e","f","g","h","i","j","k","l",
    "m","n","o","p","q","r","s","t","u","v","w","x","y","z","0","1","2","3","4",
    "5","6","7","8","9","+","/">>

\* The 6-bit value of a base64 character.
B64Value(c) == (CHOOSE i \in DOMAIN B64Alphabet : B64Alphabet[i] = c) - 1

\* The characters of s before the first padding character.
RECURSIVE B64Body(_)
B64Body(s) ==
  IF s = <<>> \/ Head(s) = "=" THEN <<>> ELSE <<Head(s)>> \o B64Body(Tail(s))

\* Buffer.from(data, 'base64'): each group of four characters gives three
\* bytes; a last group of three gives two bytes and of two gives one.
RECURSIVE B64Groups(_)
B64Groups(v) ==
  IF Len(v) >= 4 THEN
    LET n == ((v[1] * 64 + v[2]) * 64 + v[3]) * 64 + v[4]
    IN  <<n \div 65536, (n \div 256) % 256, n % 256>>
          \o B64Groups(SubSeq(v, 5, Len(v)))
  ELSE IF Len(v) = 3 THEN
    LET n == (v[1] * 64 + v[2]) * 64 + v[3]
    IN  <<n \div 1024, (n \div 4) % 256>>
  ELSE IF Len(v) = 2 THEN
    <<(v[1] * 64 + v[2]) \div 16>>
  ELSE <<>>

\* The decoding with the last, incomplete group of characters dropped.
BufferFromBase64_whole(data) ==
  LET b == B64Body(data)
      v == [i \in DOMAIN b |-> B64Value(b[i])]
  IN  B64Groups(SubSeq(v, 1, 4 * (Len(v) \div 4)))

BufferFromBase64(data) ==
  LET b == B64Body(data)
  IN  B64Groups([i \in DOMAIN b |-> B64Value(b[i])])

\* "aGVsbG8=" (hello) and "aGk=" (hi).
PayloadHello == <<"a","G","V","s","b","G","8","=">>
PayloadHi == <<"a","G","k","=">>
Payloads == {PayloadHello, PayloadHi}


\* ------------------------------------------------------------------ state

VARIABLES
  sessions,   \* the session store: key auth_<token> -> user id
  setCalls,   \* history: the calls of redisClient.set, as a spy records them
  files,      \* the files collection, in the store's order
  disk,       \* the local file system: path -> bytes
  queues,     \* the Bull queues: name -> jobs, each with its state
  inflight,   \* requests between two of their awaits (a bag)
  workers,    \* each thumbnail worker's job in progress
  submitted,  \* history: entry id -> the data its creation request carried
  resp        \* the response the last step sent, if it sent one

vars ==
  <<sessions, setCalls, files, disk, queues, inflight, workers, submitted, resp>>

\* No response was sent by the last step.
NoResp == [op |-> "none"]
\* findOne matched no document.
NoDoc == [id |-> Null]

\* ------------------------------------------------------------------ redis

\* The Redis key of a token: `auth_${token}`.
KeyOf(token) == "auth_" \o token

\* RedisClient.get(key): the value stored under the key, or Null.
RedisGet(store, key) == IF key \in DOMAIN store THEN store[key] ELSE Null

\* The sessions that exist when the service starts: one of each user, and
\* one left behind by a user whose document has since been deleted.
StoredSessions ==
  (KeyOf("t1") :> "u1") @@ (KeyOf("t2") :> "u2") @@ (KeyOf(StaleToken) :> GoneUser)

\* ------------------------------------------------------------------ utils

\* basicUtils.isValidId: ObjectId(id) throws only for a malformed string;
\* for null it generates a new id.
isValidId(id) == id # BadId

\* ObjectId(id) for an id that isValidId accepts.
ObjectId(id) == IF id = Null THEN FreshId ELSE id

\* userUtils.getUserIdAndKey: the user id stored under auth_<token>.
getUserIdAndKey(token) ==
  IF token = Null THEN Null ELSE RedisGet(sessions, KeyOf(token))

\* A lookup that finds a document for every id.
getUser_everyone(id) == id

\* userUtils.getUser({_id}): the user document, or Null.
getUser(id) == IF id \in Users THEN id ELSE Null

\* fileUtils.getFile({_id}): the first document with that id.
getFile(id) ==
  IF \E i \in DOMAIN files : files[i].id = id
  THEN files[CHOOSE i \in DOMAIN files : files[i].id = id]
  ELSE NoDoc

\* The lookup by id alone, whoever the owner is.
getFileOfUser_anyOwner(id, userId) == getFile(id)

\* fileUtils.getFile({_id, userId}): the document with that id and owner.
getFileOfUser(id, userId) ==
  IF \E i \in DOMAIN files : files[i].id = id /\ files[i].userId = userId
  THEN files[CHOOSE i \in DOMAIN files :
               files[i].id = id /\ files[i].userId = userId]
  ELSE NoDoc

\* processFile returning the document as stored.
processFile_keepPath(doc) == doc

\* fileUtils.processFile: the document without localPath (and _id as id).
processFile(doc) == [k \in DOMAIN doc \ {"localPath"} |-> doc[k]]

\* A JavaScript truthiness test of a parentId.
Truthy(id) == id # Root /\ id # Null

\* validateBody testing the type before the name.
validateBody_typeFirst(body) ==
  IF body.type \notin typesAllowed THEN "Missing type"
  ELSE IF body.name = Null THEN "Missing name"
  ELSE IF body.data = <<>> /\ body.type # "folder" THEN "Missing data"
  ELSE IF Truthy(body.parentId) THEN
    LET file == IF isValidId(body.parentId)
                THEN getFile(ObjectId(body.parentId)) ELSE NoDoc
    IN  IF file = NoDoc THEN "Parent not found"
        ELSE IF file.type # "folder" THEN "Parent is not a folder"
        ELSE Null
  ELSE Null

\* fileUtils.validateBody: the error message, or Null.
validateBody(body) ==
  IF body.name = Null THEN "Missing name"
  ELSE IF body.type \notin typesAllowed THEN "Missing type"
  ELSE IF body.data = <<>> /\ body.type # "folder" THEN "Missing data"
  ELSE IF Truthy(body.parentId) THEN
    LET file == IF isValidId(body.parentId)
                THEN getFile(ObjectId(body.parentId)) ELSE NoDoc
    IN  IF file = NoDoc THEN "Parent not found"
        ELSE IF file.type # "folder" THEN "Parent is not a folder"
        ELSE Null
  ELSE Null

\* The path of an entry's content (size 0) or of one of its derivatives.
PathOf(localPath, size) == <<localPath, size>>

\* uuidv4(): a name no file on disk carries.
uuidv4 ==
  Uuids[CHOOSE n \in 1..(Cardinality(DOMAIN disk) + 1) :
          /\ \A p \in DOMAIN disk : p[1] # Uuids[n]
          /\ \A m \in 1..(n - 1) : \E p \in DOMAIN disk : p[1] = Uuids[m]]

\* The requests in flight.
Inflight == BagToSet(inflight)
Start(r) == inflight (+) SetToBag({r})
Finish(r) == inflight (-) SetToBag({r})
Replace(r, s) == (inflight (-) SetToBag({r})) (+) SetToBag({s})

\* Queue.add(data): the job waits at the end of the named queue.
Add(name, data) ==
  [queues EXCEPT ![name] = Append(@, [data |-> data, state |-> "waiting"])]


\* ------------------------------------------------------------------ inputs

\* parentId of an upload: absent or 0 or '0' (Root), null, a malformed
\* string, a well-formed id of no entry, or an id the store assigns.
ParentIds == {Root, Null, BadId, GhostId} \cup {FileIds[i] : i \in 1..MaxFiles}

\* The body of an upload; Null is a missing (or, for type, unknown) field,
\* <<>> no data, and isPublic defaults to false.
Bodies ==
  [name : {"a.png", Null}, type : typesAllowed \cup {Null},
   isPublic : BOOLEAN, data : Payloads \cup {<<>>}, parentId : ParentIds]

\* The :id of a request path.
PathIds == {BadId, GhostId} \cup {FileIds[i] : i \in 1..MaxFiles}

\* The size query value of a content fetch; 0 is none.
FetchSizes == {0, 100, 250, 500}

\* The two copies of FilesController.getFile.
Variants == {"part_004", "routed"}

\* The data of a job; Null is a missing field.
JobData == [fileId : PathIds \cup {Null}, userId : Users \cup {Null}]

\* ------------------------------------------------------------------ upload

\* response.body of an Express response: no such property exists.
ResponseBody == Null

\* FilesController.postUpload after saveFile returned an error: reading
\* response.body.type throws before anything is sent.
replyToSaveError(error, code) ==
  IF ResponseBody = Null
  THEN [op |-> "postUpload", status |-> 0, thrown |-> "TypeError",
        saveError |-> error]
  ELSE [op |-> "postUpload", status |-> code, error |-> error,
        saveError |-> error]

\* FilesController.postUpload: the reply sent before saveFile is called,
\* or NoResp when the request goes on to saveFile.
postUploadReply(token, body) ==
  LET userId == getUserIdAndKey(token)
      error == validateBody(body)
      reply(status, msg) ==
        [op |-> "postUpload", status |-> status, error |-> msg,
         token |-> token, body |-> body]
  IN  IF ~isValidId(userId) THEN reply(401, "Unauthorized")
      ELSE IF getUser(ObjectId(userId)) = Null THEN reply(401, "Unauthorized")
      ELSE IF error # Null THEN reply(400, error)
      ELSE IF body.parentId # Root /\ ~isValidId(body.parentId)
        THEN reply(400, "Parent not found")
      ELSE NoResp

\* A saveFile that writes the content of every type.
saveFileStart_always(type) == "write"

\* fileUtils.saveFile: the content is written unless the type is folder.
saveFileStart(type) == IF type = "folder" THEN "insert" ELSE "write"

\* FilesController.postUpload up to the call of saveFile: identity, the
\* stray enqueue for an image upload without a user id, validation.
postUpload(token, body) ==
  LET userId == getUserIdAndKey(token)
      stray == isValidId(userId) /\ userId = Null /\ body.type = "image"
  IN  /\ queues' = IF stray
                   THEN Add(ControllerQueue, [fileId |-> Null, userId |-> Null])
                   ELSE queues
      /\ resp' = postUploadReply(token, body)
      /\ IF resp' # NoResp THEN UNCHANGED inflight
         ELSE inflight' = Start([op |-> "postUpload",
                                 pc |-> saveFileStart(body.type),
                                 data |-> body.data,
                                 query |-> [userId |-> ObjectId(userId),
                                            name |-> body.name,
                                            type |-> body.type,
                                            isPublic |-> body.isPublic,
                                            parentId |->
                                              IF body.parentId # Root
                                              THEN ObjectId(body.parentId)
                                              ELSE Root]])
      /\ UNCHANGED <<sessions, setCalls, files, disk, workers, submitted>>

\* saveFile going on to the insertion without writing the content.
saveFileWrite_skip(r, ok) ==
  /\ r \in Inflight /\ r.pc = "write"
  /\ inflight' = Replace(r, [r EXCEPT !.pc = "insert",
                               !.query = [localPath |-> uuidv4] @@ @])
  /\ resp' = NoResp
  /\ UNCHANGED <<sessions, setCalls, files, disk, queues, workers, submitted>>

\* fileUtils.saveFile for a file or an image: the content is decoded and
\* written under a new name; a failed write ends the request.
saveFileWrite(r, ok) ==
  /\ r \in Inflight /\ r.pc = "write"
  /\ IF ok THEN
       LET path == uuidv4
       IN  /\ disk' = (PathOf(path, 0) :> BufferFromBase64(r.data)) @@ disk
           /\ inflight' = Replace(r, [r EXCEPT !.pc = "insert",
                                        !.query = [localPath |-> path] @@ @])
           /\ resp' = NoResp
     ELSE
       /\ inflight' = Finish(r)
       /\ resp' = replyToSaveError("EACCES", 400)
       /\ UNCHANGED disk
  /\ UNCHANGED <<sessions, setCalls, files, queues, workers, submitted>>

\* fileUtils.saveFile: insertOne, then the projection of the new entry;
\* postUpload answers 201 unless the entry is an image.
saveFileInsert(r) ==
  /\ r \in Inflight /\ r.pc = "insert"
  /\ LET doc == [id |-> FileIds[Len(files) + 1]] @@ r.query
         newFile == processFile(doc)
     IN  /\ files' = Append(files, doc)
         /\ submitted' = (doc.id :> r.data) @@ submitted
         /\ IF r.query.type = "image" THEN
              /\ inflight' = Replace(r, [op |-> "postUpload", pc |-> "enqueue",
                                         newFile |-> newFile])
              /\ resp' = NoResp
            ELSE
              /\ inflight' = Finish(r)
              /\ resp' = [op |-> "postUpload", status |-> 201, body |-> newFile]
  /\ UNCHANGED <<sessions, setCalls, disk, queues, workers>>

\* The enqueue step adding the job twice.
postUploadEnqueue_twice(r, ok) ==
  /\ r \in Inflight /\ r.pc = "enqueue"
  /\ LET job == [data |-> [fileId |-> r.newFile.id,
                            userId |-> r.newFile.userId],
                  state |-> "waiting"]
     IN  queues' = [queues EXCEPT ![ControllerQueue] = @ \o <<job, job>>]
  /\ inflight' = Finish(r)
  /\ resp' = [op |-> "postUpload", status |-> 201, body |-> r.newFile]
  /\ UNCHANGED <<sessions, setCalls, files, disk, workers, submitted>>

\* FilesController.postUpload for an image: the thumbnail job is added to
\* the controller's queue, then 201 is answered.  The add is awaited
\* outside any try: when it rejects, the handler ends there and nothing
\* is answered.
postUploadEnqueue(r, ok) ==
  /\ r \in Inflight /\ r.pc = "enqueue"
  /\ IF ok THEN
       /\ queues' = Add(ControllerQueue,
                        [fileId |-> r.newFile.id, userId |-> r.newFile.userId])
       /\ resp' = [op |-> "postUpload", status |-> 201, body |-> r.newFile]
     ELSE
       /\ queues' = queues
       /\ resp' = [op |-> "postUpload", status |-> 0, thrown |-> "Error",
                   addError |-> r.newFile.id]
  /\ inflight' = Finish(r)
  /\ UNCHANGED <<sessions, setCalls, files, disk, workers, submitted>>

\* ------------------------------------------------------------------ publish

\* findOneAndUpdate writing the opposite of the stored flag.
findOneAndUpdate_toggle(docs, id, userId, setPublish) ==
  LET i == CHOOSE i \in DOMAIN docs :
             docs[i].id = id /\ docs[i].userId = userId
  IN  [docs EXCEPT ![i].isPublic = ~@]

\* filesCollection.findOneAndUpdate({_id, userId}, {$set: {isPublic}}) on
\* a collection: one atomic update of the first matching document.
findOneAndUpdate(docs, id, userId, setPublish) ==
  LET i == CHOOSE i \in DOMAIN docs :
             docs[i].id = id /\ docs[i].userId = userId
  IN  [docs EXCEPT ![i].isPublic = setPublish]

\* An update of every document of the owner.
updateFile_allOfUser(id, userId, setPublish) ==
  [i \in DOMAIN files |->
     IF files[i].userId = userId
     THEN [files[i] EXCEPT !.isPublic = setPublish] ELSE files[i]]

\* fileUtils.updateFile: findOneAndUpdate sets isPublic on the first
\* document of that id and owner.
updateFile(id, userId, setPublish) ==
  findOneAndUpdate(files, id, userId, setPublish)

\* fileUtils.publishUnpublish: the fields copied out of result.value.
updatedFile(d) ==
  [id |-> d.id, userId |-> d.userId, name |-> d.name, type |-> d.type,
   isPublic |-> d.isPublic, parentId |-> d.parentId]

\* fileUtils.publishUnpublish with the reply of putPublish / putUnpublish.
\* Nothing the two lookups read can change before the update (owners and
\* ids are never rewritten, entries never deleted), so they run with it.
publishUnpublish(token, fileId, setPublish) ==
  LET userId == getUserIdAndKey(token)
      reply(status, msg) ==
        [op |-> "publishUnpublish", status |-> status, error |-> msg,
         token |-> token, fileId |-> fileId, setPublish |-> setPublish]
  IN  /\ IF ~isValidId(fileId) THEN
           resp' = reply(401, "Unauthorized") /\ UNCHANGED files
         ELSE IF ~isValidId(userId) \/ getUser(ObjectId(userId)) = Null THEN
           resp' = reply(401, "Unauthorized") /\ UNCHANGED files
         ELSE IF getFileOfUser(ObjectId(fileId), ObjectId(userId)) = NoDoc THEN
           resp' = reply(404, "Not found") /\ UNCHANGED files
         ELSE
           /\ files' = updateFile(ObjectId(fileId), ObjectId(userId), setPublish)
           /\ resp' = [op |-> "publishUnpublish", status |-> 200,
                       token |-> token, fileId |-> fileId,
                       setPublish |-> setPublish,
                       body |-> updatedFile(
                         CHOOSE d \in {files'[i] : i \in DOMAIN files'} :
                           d.id = fileId)]
      /\ UNCHANGED <<sessions, setCalls, disk, queues, inflight, workers, submitted>>


\* publishUnpublish answering before the owner of the file is looked at.
publishUnpublishReply_anyOwner(token, fileId, setPublish) ==
  LET userId == getUserIdAndKey(token)
      reply(status, msg) ==
        [op |-> "publishUnpublish", status |-> status, error |-> msg,
         token |-> token, fileId |-> fileId, setPublish |-> setPublish]
  IN  IF ~isValidId(fileId) THEN reply(401, "Unauthorized")
      ELSE IF ~isValidId(userId) \/ getUser(ObjectId(userId)) = Null
        THEN reply(401, "Unauthorized")
      ELSE IF getFile(ObjectId(fileId)) = NoDoc THEN reply(404, "Not found")
      ELSE NoResp

\* fileUtils.publishUnpublish up to the update: the reply of putPublish /
\* putUnpublish when the identity or the lookup fails, or NoResp when the
\* request goes on to updateFile.
publishUnpublishReply(token, fileId, setPublish) ==
  LET userId == getUserIdAndKey(token)
      reply(status, msg) ==
        [op |-> "publishUnpublish", status |-> status, error |-> msg,
         token |-> token, fileId |-> fileId, setPublish |-> setPublish]
  IN  IF ~isValidId(fileId) THEN reply(401, "Unauthorized")
      ELSE IF ~isValidId(userId) \/ getUser(ObjectId(userId)) = Null
        THEN reply(401, "Unauthorized")
      ELSE IF getFileOfUser(ObjectId(fileId), ObjectId(userId)) = NoDoc
        THEN reply(404, "Not found")
      ELSE NoResp

\* fileUtils.publishUnpublish, the identity checks and the lookup of the
\* file: the request is answered, or waits for its update.
publishLookup(token, fileId, setPublish) ==
  /\ resp' = publishUnpublishReply(token, fileId, setPublish)
  /\ IF resp' # NoResp THEN UNCHANGED inflight
     ELSE inflight' = Start([op |-> "publishUnpublish", pc |-> "update",
                             token |-> token, fileId |-> fileId,
                             userId |-> ObjectId(getUserIdAndKey(token)),
                             setPublish |-> setPublish])
  /\ UNCHANGED <<sessions, setCalls, files, disk, queues, workers, submitted>>

\* The update of a request that answers without writing.
publishUpdate_lost(r) ==
  /\ r \in Inflight /\ r.pc = "update"
  /\ inflight' = Finish(r)
  /\ resp' = [op |-> "publishUnpublish", status |-> 200, token |-> r.token,
              fileId |-> r.fileId, setPublish |-> r.setPublish,
              body |-> updatedFile(getFile(ObjectId(r.fileId)))]
  /\ UNCHANGED <<sessions, setCalls, files, disk, queues, workers, submitted>>

\* fileUtils.publishUnpublish, updateFile and the reply built from
\* result.value, the document after the update.
publishUpdate(r) ==
  /\ r \in Inflight /\ r.pc = "update"
  /\ files' = updateFile(ObjectId(r.fileId), r.userId, r.setPublish)
  /\ inflight' = Finish(r)
  /\ resp' = [op |-> "publishUnpublish", status |-> 200, token |-> r.token,
              fileId |-> r.fileId, setPublish |-> r.setPublish,
              body |-> updatedFile(
                CHOOSE d \in {files'[i] : i \in DOMAIN files'} :
                  d.id = r.fileId)]
  /\ UNCHANGED <<sessions, setCalls, disk, queues, workers, submitted>>

\* ---------------------------------------------------------------- metadata

\* getShow looking the entry up by its id alone.
getShowReply_anyOwner(token, fileId) ==
  LET userId == getUserIdAndKey(token)
      result == getFile(ObjectId(fileId))
      reply(status, msg) ==
        [op |-> "getShow", token |-> token, fileId |-> fileId,
         status |-> status, error |-> msg]
  IN  IF getUser(ObjectId(userId)) = Null THEN reply(401, "Unauthorized")
      ELSE IF ~isValidId(fileId) \/ ~isValidId(userId)
        THEN reply(404, "Not found")
      ELSE IF result = NoDoc THEN reply(404, "Not found")
      ELSE [op |-> "getShow", token |-> token, fileId |-> fileId,
            status |-> 200, body |-> processFile(result)]

\* The reply of FilesController.getShow in the current state, with the
\* token and the id of the request it answers.
getShowReply(token, fileId) ==
  LET userId == getUserIdAndKey(token)
      result == getFileOfUser(ObjectId(fileId), ObjectId(userId))
      reply(status, msg) ==
        [op |-> "getShow", token |-> token, fileId |-> fileId,
         status |-> status, error |-> msg]
  IN  IF getUser(ObjectId(userId)) = Null THEN reply(401, "Unauthorized")
      ELSE IF ~isValidId(fileId) \/ ~isValidId(userId)
        THEN reply(404, "Not found")
      ELSE IF result = NoDoc THEN reply(404, "Not found")
      ELSE [op |-> "getShow", token |-> token, fileId |-> fileId,
            status |-> 200, body |-> processFile(result)]

\* A lookup that sets the session found again, for another day.
getShow_refresh(token, fileId) ==
  LET userId == getUserIdAndKey(token)
  IN  /\ resp' = getShowReply(token, fileId)
      /\ setCalls' = IF userId = Null THEN setCalls
                     ELSE Append(setCalls, <<[string |-> KeyOf(token)],
                                             [string |-> userId],
                                             [number |-> 86400]>>)
      /\ UNCHANGED <<sessions, files, disk, queues, inflight, workers,
                     submitted>>

\* FilesController.getShow: one lookup, then the reply.
getShow(token, fileId) ==
  /\ resp' = getShowReply(token, fileId)
  /\ UNCHANGED <<sessions, setCalls, files, disk, queues, inflight, workers, submitted>>

\* The characters of a decimal digit string and their values.
Digits ==
  [c \in {"0", "1", "2", "3", "4", "5", "6", "7", "8", "9"} |->
     CASE c = "0" -> 0 [] c = "1" -> 1 [] c = "2" -> 2 [] c = "3" -> 3
       [] c = "4" -> 4 [] c = "5" -> 5 [] c = "6" -> 6 [] c = "7" -> 7
       [] c = "8" -> 8 [] c = "9" -> 9]

\* The value of a string of digits, read from the left.
RECURSIVE DigitsValue(_)
DigitsValue(s) ==
  IF s = <<>> THEN 0
  ELSE 10 * DigitsValue(SubSeq(s, 1, Len(s) - 1)) + Digits[s[Len(s)]]

\* Number(request.query.page) yields a number and not NaN: the empty
\* string, or digits with an optional sign.
IsNumber(q) ==
  LET body == IF q # <<>> /\ q[1] = "-" THEN Tail(q) ELSE q
  IN  \/ q = <<>>
      \/ body # <<>> /\ \A k \in DOMAIN body : body[k] \in DOMAIN Digits

\* Number(request.query.page) || 0, then NaN replaced by 0.
PageOf(q) ==
  IF ~IsNumber(q) THEN 0
  ELSE IF q # <<>> /\ q[1] = "-" THEN 0 - DigitsValue(Tail(q))
  ELSE DigitsValue(q)

\* The page size of the listing pipeline.
PageSize == 20

\* {$match: {parentId}}: the documents with that parentId, in the
\* collection's order.
Match(docs, parentId) ==
  SelectSeq(docs, LAMBDA d : d.parentId = parentId)

\* {$skip: n} for n >= 0.
Skip(docs, n) == SubSeq(docs, n + 1, Len(docs))

\* {$limit: n} letting one document more through.
Limit_oneMore(docs, n) ==
  SubSeq(docs, 1, IF Len(docs) < n + 1 THEN Len(docs) ELSE n + 1)

\* {$limit: n}.
Limit(docs, n) == SubSeq(docs, 1, IF Len(docs) < n THEN Len(docs) ELSE n)

\* getIndex answering 404 for a parent that is no folder.
getIndexReply_notFound(token, parentId, pageQuery) ==
  LET userId == getUserIdAndKey(token)
      page == PageOf(pageQuery)
      folder == getFile(ObjectId(parentId))
      fileList == Limit(Skip(Match(files, IF parentId = Root THEN Root
                                          ELSE ObjectId(parentId)),
                             page * PageSize), PageSize)
      request == [op |-> "getIndex", token |-> token, parentId |-> parentId,
                  page |-> page]
      reply(status, msg) == [status |-> status, error |-> msg] @@ request
  IN  IF getUser(ObjectId(userId)) = Null THEN reply(401, "Unauthorized")
      ELSE IF parentId # Root /\ ~isValidId(parentId)
        THEN reply(401, "Unauthorized")
      ELSE IF parentId # Root /\ (folder = NoDoc \/ folder.type # "folder")
        THEN reply(404, "Not found")
      ELSE IF page * PageSize < 0
        THEN [status |-> 0, thrown |-> "MongoError"] @@ request
      ELSE [status |-> 200,
            body |-> [k \in DOMAIN fileList |-> processFile(fileList[k])]]
           @@ request

\* The reply of FilesController.getIndex in the current state, with the
\* token, the parentId and the page of the request it answers.  A negative
\* $skip makes the aggregation fail when the cursor is read: the handler
\* throws and nothing is sent.
getIndexReply(token, parentId, pageQuery) ==
  LET userId == getUserIdAndKey(token)
      page == PageOf(pageQuery)
      folder == getFile(ObjectId(parentId))
      fileList == Limit(Skip(Match(files, IF parentId = Root THEN Root
                                          ELSE ObjectId(parentId)),
                             page * PageSize), PageSize)
      request == [op |-> "getIndex", token |-> token, parentId |-> parentId,
                  page |-> page]
      reply(status, msg) == [status |-> status, error |-> msg] @@ request
  IN  IF getUser(ObjectId(userId)) = Null THEN reply(401, "Unauthorized")
      ELSE IF parentId # Root /\ ~isValidId(parentId)
        THEN reply(401, "Unauthorized")
      ELSE IF parentId # Root /\ (folder = NoDoc \/ folder.type # "folder")
        THEN [status |-> 200, body |-> <<>>] @@ request
      ELSE IF page * PageSize < 0
        THEN [status |-> 0, thrown |-> "MongoError"] @@ request
      ELSE [status |-> 200,
            body |-> [k \in DOMAIN fileList |-> processFile(fileList[k])]]
           @@ request

\* FilesController.getIndex: the aggregation reads the collection at once.
getIndex(token, parentId, pageQuery) ==
  /\ resp' = getIndexReply(token, parentId, pageQuery)
  /\ UNCHANGED <<sessions, setCalls, files, disk, queues, inflight, workers, submitted>>

\* ------------------------------------------------------------------ fetch

\* isOwnerAndPublic with the public flag left out of the test of another
\* user: only the owner passes it.
isOwnerAndPublic_ownerOnly(file, userId) ==
  IF \/ (~file.isPublic /\ userId = Null)
     \/ (userId # Null /\ file.userId # userId)
  THEN FALSE ELSE TRUE

\* fileUtils.isOwnerAndPublic(file, userId).
isOwnerAndPublic(file, userId) ==
  IF \/ (~file.isPublic /\ userId = Null)
     \/ (userId # Null /\ file.userId # userId /\ ~file.isPublic)
  THEN FALSE ELSE TRUE

\* The filter with a missing user id matching every owner.
matchesOwnerOrPublic_anyone(file, userId) ==
  userId = Null \/ file.userId = ObjectId(userId) \/ file.isPublic = TRUE

\* The filter of the routed getFile:
\* $or: [{userId: ObjectId(userId)}, {isPublic: true}].
matchesOwnerOrPublic(file, userId) ==
  file.userId = ObjectId(userId) \/ file.isPublic = TRUE

\* The lookup refusing every caller without a user id.
readableFile_loggedIn(variant, fileId, userId) ==
  LET file == getFile(ObjectId(fileId))
  IN  IF file = NoDoc \/ userId = Null THEN NoDoc
      ELSE IF file.isPublic \/ file.userId = userId THEN file ELSE NoDoc

\* The document the content fetch goes on with, or NoDoc: part_004 loads it
\* by id and tests isOwnerAndPublic, the routed controller filters in the
\* query.
readableFile(variant, fileId, userId) ==
  LET file == getFile(ObjectId(fileId))
  IN  IF file = NoDoc THEN NoDoc
      ELSE IF variant = "part_004"
        THEN (IF isOwnerAndPublic(file, userId) THEN file ELSE NoDoc)
        ELSE (IF matchesOwnerOrPublic(file, userId) THEN file ELSE NoDoc)

\* fileUtils.getFileData(file, size): the bytes at localPath, or at
\* localPath_<size> when a size is given; 404 when the read fails.
getFileData(file, size) ==
  LET localPath == IF size # 0 THEN PathOf(file.localPath, size)
                   ELSE PathOf(file.localPath, 0)
  IN  IF localPath \in DOMAIN disk
      THEN [code |-> 200, error |-> Null, data |-> disk[localPath]]
      ELSE [code |-> 404, error |-> "Not found", data |-> <<>>]

\* fileUtils.getLocalPath(file, size) of the routed controller: the path
\* the content retrieval service resolves to.
getLocalPath(file, size) ==
  IF size # 0 THEN PathOf(file.localPath, size) ELSE PathOf(file.localPath, 0)

\* response.sendFile(path): the bytes; a path that cannot be read ends in
\* the framework's 404.
sendFile(path) ==
  IF path \in DOMAIN disk
  THEN [code |-> 200, error |-> Null, data |-> disk[path]]
  ELSE [code |-> 404, error |-> "Not found", data |-> <<>>]

\* getFile answering for a folder as for an entry that does not exist.
getFileReply_folderNotFound(variant, token, fileId, size) ==
  LET userId == getUserIdAndKey(token)
      file == readableFile(variant, fileId, userId)
      reply(status, msg, data) ==
        [op |-> "getFile", variant |-> variant, userId |-> userId,
         fileId |-> fileId, size |-> size, status |-> status,
         error |-> msg, data |-> data]
  IN  IF ~isValidId(fileId) THEN reply(404, "Not found", <<>>)
      ELSE IF file = NoDoc THEN reply(404, "Not found", <<>>)
      ELSE IF file.type = "folder" THEN reply(404, "Not found", <<>>)
      ELSE LET got == IF variant = "part_004" THEN getFileData(file, size)
                      ELSE sendFile(getLocalPath(file, size))
           IN  reply(got.code, got.error, got.data)

\* The reply of FilesController.getFile in the current state.
getFileReply(variant, token, fileId, size) ==
  LET userId == getUserIdAndKey(token)
      file == readableFile(variant, fileId, userId)
      reply(status, msg, data) ==
        [op |-> "getFile", variant |-> variant, userId |-> userId,
         fileId |-> fileId, size |-> size, status |-> status,
         error |-> msg, data |-> data]
  IN  IF ~isValidId(fileId) THEN reply(404, "Not found", <<>>)
      ELSE IF file = NoDoc THEN reply(404, "Not found", <<>>)
      ELSE IF file.type = "folder"
        THEN reply(400, "A folder doesn't have content", <<>>)
      ELSE LET got == IF variant = "part_004" THEN getFileData(file, size)
                      ELSE sendFile(getLocalPath(file, size))
           IN  reply(got.code, got.error, got.data)

\* FilesController.getFile.  The content of a path, once written, is only
\* ever rewritten with the same bytes, and entries are never removed, so
\* the lookup and the read that follows it are taken together.
getFileContent(variant, token, fileId, size) ==
  /\ resp' = getFileReply(variant, token, fileId, size)
  /\ UNCHANGED <<sessions, setCalls, files, disk, queues, inflight, workers, submitted>>

\* ------------------------------------------------------------------ worker

\* The error of the generation of the derivative of width size, and the
\* value that stands for no error.
ErrorOf(size) == size
NoError == 0

\* image-thumbnail: the derivative of width size of an image.
Thumbnail(bytes, size) == <<size>> \o bytes

\* The first waiting job of the worker's queue, or 0.
NextJob ==
  LET q == queues[WorkerQueue]
      W == {i \in DOMAIN q : q[i].state = "waiting"}
  IN  IF W = {} THEN 0 ELSE CHOOSE i \in W : \A j \in W : i <= j

SetJobState(i, state) == [queues EXCEPT ![WorkerQueue][i].state = state]

\* A producer puts a job on the queue named 'thumbnail generation'.
produceJob(data) ==
  /\ queues' = Add(WorkerQueue, data)
  /\ resp' = NoResp
  /\ UNCHANGED <<sessions, setCalls, files, disk, inflight, workers, submitted>>

\* fileQueue.process up to the fan-out: the job becomes active; a missing
\* fileId or userId or an unknown file throws, and since the handler takes
\* the done callback, the rejection reaches nobody and done is never called.
processJob(w) ==
  LET i == NextJob
      job == queues[WorkerQueue][i].data
      file == getFileOfUser(job.fileId, job.userId)
  IN  /\ workers[w].pc = "idle"
      /\ i # 0
      /\ queues' = SetJobState(i, "active")
      /\ workers' =
           [workers EXCEPT ![w] =
              IF job.fileId = Null THEN [pc |-> "thrown", job |-> i,
                                         error |-> "Missing fileId"]
              ELSE IF job.userId = Null THEN [pc |-> "thrown", job |-> i,
                                              error |-> "Missing userId"]
              ELSE IF file = NoDoc THEN [pc |-> "thrown", job |-> i,
                                         error |-> "File not found"]
              ELSE [pc |-> "generating", job |-> i,
                    localPath |-> IF "localPath" \in DOMAIN file
                                  THEN file.localPath ELSE Null,
                    gen |-> [s \in Sizes |-> "pending"],
                    error |-> NoError]]
      /\ resp' = NoResp
      /\ UNCHANGED <<sessions, setCalls, files, disk, inflight, submitted>>

\* The worker's state once one generation has settled: free again when the
\* job was reported and no sibling is still running.
Settled(wk, gen) ==
  IF wk.pc = "reported" /\ \A s \in Sizes : gen[s] # "pending"
  THEN [pc |-> "idle"] ELSE [wk EXCEPT !.gen = gen]

\* The generation writing the derivative over the original.
generateThumbnail_inPlace(w, size, ok) ==
  LET wk == workers[w]
  IN  /\ wk.pc \in {"generating", "reported"}
      /\ wk.gen[size] = "pending"
      /\ ok => wk.localPath # Null /\ PathOf(wk.localPath, 0) \in DOMAIN disk
      /\ disk' = IF ok
                 THEN (PathOf(wk.localPath, 0) :>
                         Thumbnail(disk[PathOf(wk.localPath, 0)], size)) @@ disk
                 ELSE disk
      /\ workers' = [workers EXCEPT ![w] =
           Settled(wk, [wk.gen EXCEPT ![size] =
                          IF ok THEN "written" ELSE "failed"])]
      /\ resp' = NoResp
      /\ UNCHANGED <<sessions, setCalls, files, queues, inflight, submitted>>

\* generateThumbnail(file.localPath, size): the derivative is computed from
\* the original and written next to it, or either step fails.  Promise.all
\* rejects with the error of the first generation that fails.
generateThumbnail(w, size, ok) ==
  LET wk == workers[w]
  IN  /\ wk.pc \in {"generating", "reported"}
      /\ wk.gen[size] = "pending"
      /\ ok => wk.localPath # Null /\ PathOf(wk.localPath, 0) \in DOMAIN disk
      /\ disk' = IF ok
                 THEN (PathOf(wk.localPath, size) :>
                         Thumbnail(disk[PathOf(wk.localPath, 0)], size)) @@ disk
                 ELSE disk
      /\ workers' = [workers EXCEPT ![w] =
           Settled([wk EXCEPT !.error = IF ok \/ @ # NoError THEN @
                                         ELSE ErrorOf(size)],
                   [wk.gen EXCEPT ![size] =
                      IF ok THEN "written" ELSE "failed"])]
      /\ resp' = NoResp
      /\ UNCHANGED <<sessions, setCalls, files, queues, inflight, submitted>>

\* done() called as soon as one generation has written its derivative.
jobDone_early(w) ==
  LET wk == workers[w]
  IN  /\ wk.pc = "generating"
      /\ \E s \in Sizes : wk.gen[s] = "written"
      /\ queues' = SetJobState(wk.job, "completed")
      /\ workers' = [workers EXCEPT ![w] = [pc |-> "idle"]]
      /\ resp' = NoResp
      /\ UNCHANGED <<sessions, setCalls, files, disk, inflight, submitted>>

\* Promise.all resolved: done() marks the job completed.
jobDone(w) ==
  LET wk == workers[w]
  IN  /\ wk.pc = "generating"
      /\ \A s \in Sizes : wk.gen[s] = "written"
      /\ queues' = SetJobState(wk.job, "completed")
      /\ workers' = [workers EXCEPT ![w] = [pc |-> "idle"]]
      /\ resp' = NoResp
      /\ UNCHANGED <<sessions, setCalls, files, disk, inflight, submitted>>

\* The catch block calling done() without the error.
jobFail_done(w) ==
  LET wk == workers[w]
  IN  /\ wk.pc = "generating"
      /\ \E s \in Sizes : wk.gen[s] = "failed"
      /\ queues' = SetJobState(wk.job, "completed")
      /\ workers' = [workers EXCEPT ![w] =
                       Settled([wk EXCEPT !.pc = "reported"], wk.gen)]
      /\ resp' = NoResp
      /\ UNCHANGED <<sessions, setCalls, files, disk, inflight, submitted>>

\* Promise.all rejected at the first failure: done(error) marks the job
\* failed, with that error as the reason, while the sibling generations
\* go on.
jobFail(w) ==
  LET wk == workers[w]
  IN  /\ wk.pc = "generating"
      /\ \E s \in Sizes : wk.gen[s] = "failed"
      /\ queues' = [queues EXCEPT ![WorkerQueue][wk.job] =
                      [state |-> "failed", failedReason |-> wk.error] @@ @]
      /\ workers' = [workers EXCEPT ![w] =
                       Settled([wk EXCEPT !.pc = "reported"], wk.gen)]
      /\ resp' = NoResp
      /\ UNCHANGED <<sessions, setCalls, files, disk, inflight, submitted>>

\* -------------------------------------------------------------------- auth

\* A number and a string among the arguments of a call.
Num(n) == [number |-> n]
Str(s) == [string |-> s]

\* RedisClient.set(key, value, duration): SETEX key duration value, which
\* Redis refuses unless the duration is a positive integer.
RedisSet(store, key, value, duration) ==
  IF "number" \in DOMAIN duration /\ duration.number > 0
  THEN (key :> value) @@ store
  ELSE store

\* A del that removes nothing.
RedisDel_keep(store, key) == store

\* RedisClient.del(key).
RedisDel(store, key) == [k \in DOMAIN store \ {key} |-> store[k]]

\* sha1(text): a digest, different from the text.
sha1(text) == <<"sha1", text>>

\* The users collection: a@... with password x, b@... with password y
\* (the bytes of "a", "x", "b", "y").
usersCollection ==
  <<[id |-> "u1", email |-> <<97>>, password |-> sha1(<<120>>)],
    [id |-> "u2", email |-> <<98>>, password |-> sha1(<<121>>)]>>

\* The documents of the users collection.
UserDocs == {usersCollection[i] : i \in DOMAIN usersCollection}

\* findOne(query) on the users collection, the query given as the set of
\* the documents it matches: the first of them, or NoDoc.
findOneUser(matching) ==
  IF \E i \in DOMAIN usersCollection : usersCollection[i] \in matching
  THEN usersCollection[CHOOSE i \in DOMAIN usersCollection :
                         /\ usersCollection[i] \in matching
                         /\ \A j \in 1..(i - 1) :
                              usersCollection[j] \notin matching]
  ELSE NoDoc

\* String.split(separator) on a sequence of characters or bytes.
RECURSIVE Split(_, _)
Split(s, sep) ==
  IF \E i \in DOMAIN s : s[i] = sep
  THEN LET i == CHOOSE i \in DOMAIN s :
                  s[i] = sep /\ \A j \in 1..(i - 1) : s[j] # sep
       IN  <<SubSeq(s, 1, i - 1)>> \o Split(SubSeq(s, i + 1, Len(s)), sep)
  ELSE <<s>>

\* String.slice(from, to) and String.slice(from).
Slice(s, from, to) ==
  SubSeq(s, from + 1, IF to < Len(s) THEN to ELSE Len(s))
SliceFrom(s, from) == SubSeq(s, from + 1, Len(s))

\* The text 'Basic ' and the byte of ':'.
Basic == <<"B", "a", "s", "i", "c", " ">>
Colon == 58
\* The value of a header the request does not carry.
NoHeader == <<>>

\* The two copies of AuthController.
AuthVariants == {"part_005", "routed"}

\* AuthController.getConnect up to the creation of the session: the status
\* answered (0 when the handler ends without answering) and the user
\* found.  The routed controller returns at once on a header that is
\* missing or does not start with 'Basic ', takes everything after it,
\* wants exactly two fields and looks the user up by email and digest; the
\* copy of part_005 answers 401 to such a header, takes what follows the
\* first blank, reads the first two fields and compares the digest itself
\* (sha1 of a missing password throws).
authenticate(variant, authHeader) ==
  LET result(status, user) == [status |-> status, user |-> user]
  IN  IF variant = "routed" THEN
        IF authHeader = NoHeader THEN result(0, NoDoc)
        ELSE IF Slice(authHeader, 0, 6) # Basic THEN result(0, NoDoc)
        ELSE
          LET decodedDetails == BufferFromBase64(SliceFrom(authHeader, 6))
              data == Split(decodedDetails, Colon)
          IN  IF Len(data) # 2 THEN result(401, NoDoc)
              ELSE
                LET hashedPassword == sha1(data[2])
                    desiredUser ==
                      findOneUser({u \in UserDocs :
                                     /\ u.email = data[1]
                                     /\ u.password = hashedPassword})
                IN  IF desiredUser # NoDoc THEN result(200, desiredUser)
                    ELSE result(401, NoDoc)
      ELSE
        IF authHeader = NoHeader \/ Slice(authHeader, 0, 6) # Basic
        THEN result(401, NoDoc)
        ELSE
          LET parts == Split(authHeader, " ")
              credentials == BufferFromBase64(parts[2])
              fields == Split(credentials, Colon)
              email == fields[1]
              user == findOneUser({u \in UserDocs : u.email = email})
          IN  IF user = NoDoc THEN result(401, NoDoc)
              ELSE IF Len(fields) < 2 THEN result(0, NoDoc)
              ELSE IF user.password # sha1(fields[2]) THEN result(401, NoDoc)
              ELSE result(200, user)

\* The arguments of the call of redisClient.set in getConnect.
setArguments(variant, key, userId) ==
  IF variant = "routed" THEN <<Str(key), Str(userId), Num(862400)>>
  ELSE <<Str(key), Str(userId), Str("EX"), Num(86400)>>

\* uuidv4() in getConnect: a token never given before.
newToken == TokenIds[Len(setCalls) + 1]

\* AuthController.getConnect: a sign-in.
getConnect(variant, authHeader) ==
  LET found == authenticate(variant, authHeader)
      reply(status, msg) ==
        [op |-> "getConnect", variant |-> variant, header |-> authHeader,
         status |-> status, error |-> msg]
  IN  /\ IF found.status = 200 THEN
           LET token == newToken
               arguments == setArguments(variant, KeyOf(token), found.user.id)
           IN  /\ setCalls' = Append(setCalls, arguments)
               /\ sessions' = RedisSet(sessions, arguments[1].string,
                                       arguments[2].string, arguments[3])
               /\ resp' = [op |-> "getConnect", variant |-> variant,
                           header |-> authHeader, status |-> 200,
                           token |-> token]
         ELSE
           /\ resp' = IF found.status = 401 THEN reply(401, "Unauthorized")
                      ELSE reply(0, Null)
           /\ UNCHANGED <<sessions, setCalls>>
     /\ UNCHANGED <<files, disk, queues, inflight, workers, submitted>>

\* AuthController.getDisconnect: the reply.  The routed controller looks
\* the key of a missing token up, the copy of part_005 answers 401 before.
getDisconnectReply(variant, token) ==
  LET reply(status, msg) ==
        [op |-> "getDisconnect", variant |-> variant, token |-> token,
         status |-> status, error |-> msg]
  IN  IF variant = "part_005" /\ token = Null THEN reply(401, "Unauthorized")
      ELSE IF RedisGet(sessions, KeyOf(token)) = Null
        THEN reply(401, "Unauthorized")
      ELSE reply(204, Null)

\* AuthController.getDisconnect: a sign-out.
getDisconnect(variant, token) ==
  /\ resp' = getDisconnectReply(variant, token)
  /\ sessions' = IF resp'.status = 204 THEN RedisDel(sessions, KeyOf(token))
                 ELSE sessions
  /\ UNCHANGED <<setCalls, files, disk, queues, inflight, workers, submitted>>

\* getMe answering with the whole document.
getMeReply_withPassword(token) ==
  LET userId == IF token = Null THEN Null
                ELSE RedisGet(sessions, KeyOf(token))
      user == findOneUser({u \in UserDocs : u.id = ObjectId(userId)})
      reply(status, msg) ==
        [op |-> "getMe", token |-> token, status |-> status, error |-> msg]
  IN  IF token = Null THEN reply(401, "Unauthorized")
      ELSE IF userId = Null THEN reply(401, "Unauthorized")
      ELSE IF user = NoDoc THEN reply(401, "Unauthorized")
      ELSE [op |-> "getMe", token |-> token, status |-> 200, body |-> user]

\* UsersController.getMe: the reply, the user's document without _id and
\* password and with id.
getMeReply(token) ==
  LET userId == IF token = Null THEN Null
                ELSE RedisGet(sessions, KeyOf(token))
      user == findOneUser({u \in UserDocs : u.id = ObjectId(userId)})
      reply(status, msg) ==
        [op |-> "getMe", token |-> token, status |-> status, error |-> msg]
  IN  IF token = Null THEN reply(401, "Unauthorized")
      ELSE IF userId = Null THEN reply(401, "Unauthorized")
      ELSE IF user = NoDoc THEN reply(401, "Unauthorized")
      ELSE [op |-> "getMe", token |-> token, status |-> 200,
            body |-> [f \in (DOMAIN user \cup {"id"}) \ {"_id", "password"}
                        |-> user[f]]]

\* UsersController.getMe.
getMe(token) ==
  /\ resp' = getMeReply(token)
  /\ UNCHANGED <<sessions, setCalls, files, disk, queues, inflight, workers,
                 submitted>>

\* ------------------------------------------------------------------ system

Init ==
  /\ sessions = StoredSessions
  /\ setCalls = <<>>
  /\ files = <<>>
  /\ disk = [p \in {} |-> <<>>]
  /\ queues = [n \in QueueNames |-> <<>>]
  /\ inflight = EmptyBag
  /\ workers = [w \in Workers |-> [pc |-> "idle"]]
  /\ submitted = [p \in {} |-> <<>>]
  /\ resp = NoResp

\* An upload may start: the bounds of the exploration leave room for its
\* entry, for its request and, when it adds a stray job, for that job.
Room(token, body, maxInflight) ==
  /\ postUploadReply(token, body) = NoResp =>
       /\ Len(files) + BagCardinality(inflight) < MaxFiles
       /\ BagCardinality(inflight) < maxInflight
  /\ getUserIdAndKey(token) = Null /\ body.type = "image" =>
       Len(queues[ControllerQueue]) < MaxJobs

\* The content service: uploads of well-formed bodies under the root, one
\* at a time, by the first user and (a file) by the second; visibility
\* changes and content fetches by anyone; the thumbnail worker on jobs that
\* name an entry of the first user, with generations that succeed.
ContentBodies ==
  [name : {"a.png"}, type : typesAllowed, isPublic : {FALSE},
   data : Payloads, parentId : {Root}]

ContentUploads ==
  ({"t1"} \X ContentBodies)
  \cup {<<"t2", [name |-> "a.png", type |-> "file", isPublic |-> TRUE,
                 data |-> PayloadHi, parentId |-> Root]>>}

Next ==
  \/ \E u \in ContentUploads :
       Room(u[1], u[2], MaxUploads) /\ postUpload(u[1], u[2])
  \/ \E r \in Inflight : saveFileWrite(r, TRUE)
  \/ \E r \in Inflight : saveFileInsert(r)
  \/ \E r \in Inflight : postUploadEnqueue(r, TRUE)
  \/ \E token \in Tokens, i \in 1..MaxFiles, setPublish \in BOOLEAN :
       publishUnpublish(token, FileIds[i], setPublish)
  \/ \E variant \in Variants, token \in Tokens, size \in {0, 100} :
       getFileContent(variant, token, FileIds[1], size)
  \/ \E i \in 1..MaxFiles :
       /\ Len(queues[WorkerQueue]) < MaxJobs
       /\ produceJob([fileId |-> FileIds[i], userId |-> "u1"])
  \/ \E w \in Workers : processJob(w)
  \/ \E w \in Workers, size \in Sizes : generateThumbnail(w, size, TRUE)
  \/ \E w \in Workers : jobDone(w)

Spec == Init /\ [][Next]_vars

\* The creation service: concurrent uploads by anyone, with disk writes
\* and additions to the queue that may fail.  The first user sends the well-formed bodies under every
\* kind of parent and the bodies that lack a field, the second user and
\* the anonymous caller a few well-formed ones.
UploadBodies ==
  [name : {"a.png"}, type : typesAllowed, isPublic : {FALSE},
   data : {PayloadHello}, parentId : ParentIds]
  \cup [name : {"a.png", Null}, type : {"file", "folder", Null},
        isPublic : {FALSE}, data : {PayloadHello, <<>>}, parentId : {Root}]

OtherBodies ==
  [name : {"a.png"}, type : {"image", "folder"}, isPublic : {FALSE},
   data : {PayloadHello}, parentId : {Root, FileIds[1]}]

NextUpload ==
  \/ \E body \in UploadBodies :
       Room("t1", body, MaxInflight) /\ postUpload("t1", body)
  \/ \E token \in {"t2", Null}, body \in OtherBodies :
       Room(token, body, MaxInflight) /\ postUpload(token, body)
  \/ \E r \in Inflight, ok \in BOOLEAN : saveFileWrite(r, ok)
  \/ \E r \in Inflight : saveFileInsert(r)
  \/ \E r \in Inflight, ok \in BOOLEAN : postUploadEnqueue(r, ok)

SpecUpload == Init /\ [][NextUpload]_vars

\* The thumbnail pipeline end to end: image uploads by the first user, the
\* owner's fetch of the first entry's derivative of width 100, and the
\* worker on the jobs of its queue, with the scheduling the runtime gives:
\* a request that is being handled goes on, and the worker takes the jobs
\* of its queue and carries them through.  New requests and new jobs may
\* stop coming.
FairBodies ==
  [name : {"a.png"}, type : {"image"}, isPublic : {FALSE},
   data : {PayloadHello}, parentId : {Root}]

NextFair ==
  \/ \E body \in FairBodies :
       Room("t1", body, MaxUploads) /\ postUpload("t1", body)
  \/ \E r \in Inflight : saveFileWrite(r, TRUE)
  \/ \E r \in Inflight : saveFileInsert(r)
  \/ \E r \in Inflight : postUploadEnqueue(r, TRUE)
  \/ \E variant \in Variants :
       getFileContent(variant, "t1", FileIds[1], 100)
  \/ \E i \in 1..MaxFiles :
       /\ Len(queues[WorkerQueue]) < MaxJobs
       /\ produceJob([fileId |-> FileIds[i], userId |-> "u1"])
  \/ \E w \in Workers : processJob(w)
  \/ \E w \in Workers, size \in Sizes : generateThumbnail(w, size, TRUE)
  \/ \E w \in Workers : jobDone(w)

\* Weak fairness of the steps of a request in flight and of the worker.
Fairness ==
  /\ WF_vars(\E r \in Inflight : saveFileWrite(r, TRUE))
  /\ WF_vars(\E r \in Inflight : saveFileInsert(r))
  /\ WF_vars(\E r \in Inflight : postUploadEnqueue(r, TRUE))
  /\ WF_vars(\E w \in Workers : processJob(w))
  /\ WF_vars(\E w \in Workers, size \in Sizes : generateThumbnail(w, size, TRUE))
  /\ WF_vars(\E w \in Workers : jobDone(w))

SpecFair == Init /\ [][NextFair]_vars /\ Fairness

\* The page query values: absent, not a number, pages 0 to 2, and -1.
PageQueries ==
  {<<>>, <<"a">>, <<"0">>, <<"1">>, <<"2">>, <<"-", "1">>}

\* The parentId query values of a listing.
ListParents == {Root, BadId, GhostId} \cup {FileIds[i] : i \in 1..MaxFiles}

\* The metadata service: uploads of a folder or a file under the root or
\* under the first entry by the first user and of a file by the second,
\* visibility changes of the first entry whose lookup and update are
\* separate steps, and metadata fetches and listings by the first user and
\* by the anonymous caller.
MetaUploads ==
  ({"t1"} \X [name : {"a.png"}, type : {"folder", "file"}, isPublic : {FALSE},
              data : {PayloadHi}, parentId : {Root, FileIds[1]}])
  \cup {<<"t2", [name |-> "a.png", type |-> "file", isPublic |-> FALSE,
                 data |-> PayloadHi, parentId |-> Root]>>}

NextMeta ==
  \/ \E u \in MetaUploads :
       Room(u[1], u[2], MaxUploads) /\ postUpload(u[1], u[2])
  \/ \E r \in Inflight : saveFileWrite(r, TRUE)
  \/ \E r \in Inflight : saveFileInsert(r)
  \/ \E token \in Tokens, setPublish \in BOOLEAN :
       /\ BagCardinality(inflight) < MaxInflight
       /\ publishLookup(token, FileIds[1], setPublish)
  \/ \E r \in Inflight : publishUpdate(r)
  \/ \E token \in {"t1", Null}, fileId \in {FileIds[1], GhostId} :
       getShow(token, fileId)
  \/ \E token \in {"t1", Null}, parentId \in {Root, FileIds[1]},
        pageQuery \in {<<>>, <<"-", "1">>} :
       getIndex(token, parentId, pageQuery)

SpecMeta == Init /\ [][NextMeta]_vars

\* The Authorization headers: none, another scheme, and 'Basic ' with the
\* base64 text of a:x and b:y (the two users), a:y (a wrong password),
\* c:x (no such user), a (no password) and a:x:z (three fields).
AuthHeaders ==
  {NoHeader, <<"B", "e", "a", "r", "e", "r", " ", "Y", "T", "p", "4">>}
  \cup {Basic \o c : c \in {<<"Y", "T", "p", "4">>, <<"Y", "j", "p", "5">>,
                            <<"Y", "T", "p", "5">>, <<"Y", "z", "p", "4">>,
                            <<"Y", "Q", "=", "=">>,
                            <<"Y", "T", "p", "4", "O", "n", "o", "=">>}}

\* The headers the session service is sent: none, the first user's
\* credentials, a wrong password and a text without password.
SentHeaders ==
  {NoHeader} \cup {Basic \o c : c \in {<<"Y", "T", "p", "4">>,
                                       <<"Y", "T", "p", "5">>,
                                       <<"Y", "Q", "=", "=">>}}

\* The tokens a caller of the session service presents: none, the first
\* user's, the one of the deleted user and the first one a sign-in gives.
AuthTokens == {Null, "t1", StaleToken, TokenIds[1]}

\* The session service: sign-ins (at most MaxSignIns of them succeed),
\* sign-outs of the users that exist and current-user requests, beside
\* uploads of a file under the root and publications of the first entry
\* that present those tokens, and metadata fetches and listings of the
\* first user and of the deleted one.
AuthBody == [name |-> "a.png", type |-> "file", isPublic |-> FALSE,
             data |-> PayloadHi, parentId |-> Root]

NextAuth ==
  \/ \E variant \in AuthVariants, authHeader \in SentHeaders :
       /\ Len(setCalls) < MaxSignIns
       /\ getConnect(variant, authHeader)
  \/ \E variant \in AuthVariants, token \in AuthTokens \ {StaleToken} :
       getDisconnect(variant, token)
  \/ \E token \in AuthTokens : getMe(token)
  \/ \E token \in AuthTokens :
       Room(token, AuthBody, MaxUploads) /\ postUpload(token, AuthBody)
  \/ \E r \in Inflight : saveFileWrite(r, TRUE)
  \/ \E r \in Inflight : saveFileInsert(r)
  \/ \E token \in AuthTokens : publishUnpublish(token, FileIds[1], TRUE)
  \/ \E token \in {"t1", StaleToken} : getShow(token, FileIds[1])
  \/ \E token \in {"t1", StaleToken} : getIndex(token, Root, <<>>)

SpecAuth == Init /\ [][NextAuth]_vars

\* The thumbnail worker on whatever its queue is given: jobs that name the
\* first entry, no entry or nothing, for the first user or for nobody,
\* beside image uploads of the first user; a generation succeeds or fails.
\* The worker's steps and the steps of a request in flight are taken
\* fairly; jobs and requests may stop coming.
WorkerJobs == [fileId : {FileIds[1], GhostId, Null}, userId : {"u1", Null}]

NextWorker ==
  \/ \E body \in FairBodies :
       Room("t1", body, MaxUploads) /\ postUpload("t1", body)
  \/ \E r \in Inflight : saveFileWrite(r, TRUE)
  \/ \E r \in Inflight : saveFileInsert(r)
  \/ \E r \in Inflight : postUploadEnqueue(r, TRUE)
  \/ \E data \in WorkerJobs :
       Len(queues[WorkerQueue]) < MaxJobs /\ produceJob(data)
  \/ \E w \in Workers : processJob(w)
  \/ \E w \in Workers, size \in Sizes, ok \in BOOLEAN :
       generateThumbnail(w, size, ok)
  \/ \E w \in Workers : jobDone(w)
  \/ \E w \in Workers : jobFail(w)

\* Weak fairness of the steps of an upload in flight and of the worker,
\* whichever way a generation ends.
FairnessWorker ==
  /\ WF_vars(\E r \in Inflight : saveFileWrite(r, TRUE))
  /\ WF_vars(\E r \in Inflight : saveFileInsert(r))
  /\ WF_vars(\E r \in Inflight : postUploadEnqueue(r, TRUE))
  /\ WF_vars(\E w \in Workers : processJob(w))
  /\ WF_vars(\E w \in Workers, size \in Sizes, ok \in BOOLEAN :
               generateThumbnail(w, size, ok))
  /\ WF_vars(\E w \in Workers : jobDone(w))
  /\ WF_vars(\E w \in Workers : jobFail(w))

SpecWorker == Init /\ [][NextWorker]_vars /\ FairnessWorker

\* The thumbnail service with two worker processes on the queue, after an
\* image upload of each user: the store holds the two images and the disk
\* their contents.  Producers add up to MaxRuns jobs, which may name the
\* first image more than once, with its owner, with the other user or with
\* nobody, or name no entry or nothing; a generation succeeds or fails.
ThumbWorkers == {"w1", "w2"}

ThumbJobs ==
  {[fileId |-> FileIds[1], userId |-> "u1"],
   [fileId |-> FileIds[1], userId |-> "u2"],
   [fileId |-> FileIds[1], userId |-> Null],
   [fileId |-> GhostId, userId |-> "u1"],
   [fileId |-> Null, userId |-> "u1"]}

ThumbEntry(i) ==
  [id |-> FileIds[i], userId |-> IF i = 1 THEN "u1" ELSE "u2",
   name |-> "a.png", type |-> "image", isPublic |-> FALSE,
   parentId |-> Root, localPath |-> Uuids[i]]

InitThumb ==
  /\ sessions = StoredSessions
  /\ setCalls = <<>>
  /\ files = [i \in 1..2 |-> ThumbEntry(i)]
  /\ disk = [p \in {PathOf(Uuids[i], 0) : i \in 1..2} |->
              BufferFromBase64(PayloadHello)]
  /\ queues = [n \in QueueNames |->
                IF n = ControllerQueue
                THEN [i \in 1..2 |->
                        [data |-> [fileId |-> FileIds[i],
                                   userId |-> ThumbEntry(i).userId],
                         state |-> "waiting"]]
                ELSE <<>>]
  /\ inflight = EmptyBag
  /\ workers = [w \in ThumbWorkers |-> [pc |-> "idle"]]
  /\ submitted = [id \in {FileIds[i] : i \in 1..2} |-> PayloadHello]
  /\ resp = NoResp

NextThumb ==
  \/ \E data \in ThumbJobs :
       Len(queues[WorkerQueue]) < MaxRuns /\ produceJob(data)
  \/ \E w \in ThumbWorkers : processJob(w)
  \/ \E w \in ThumbWorkers, size \in Sizes, ok \in BOOLEAN :
       generateThumbnail(w, size, ok)
  \/ \E w \in ThumbWorkers : jobDone(w)
  \/ \E w \in ThumbWorkers : jobFail(w)

SpecThumb == InitThumb /\ [][NextThumb]_vars

\* The listing service over stores of up to MaxListed entries: the first
\* entry is a folder of the first user under the root, the others are
\* files owned in turn by the two users, all under the root, all in the
\* folder, or two in three in the folder.
ListedIds == [i \in 1..MaxListed |-> "e" \o ToString(i)]

ListedPaths == [i \in 1..MaxListed |-> "q" \o ToString(i)]

ListSizes == {0, 1, 20, 21, 22, 41, MaxListed}

ListModes == {"root", "folder", "mixed"}

ListedEntry(i, mode) ==
  LET owner == IF i % 2 = 1 THEN "u1" ELSE "u2"
      parentId == IF mode = "root" \/ (mode = "mixed" /\ i % 3 = 0)
                  THEN Root ELSE ListedIds[1]
  IN  IF i = 1
      THEN [id |-> ListedIds[1], userId |-> "u1", name |-> "a.png",
            type |-> "folder", isPublic |-> FALSE, parentId |-> Root]
      ELSE [id |-> ListedIds[i], userId |-> owner, name |-> "a.png",
            type |-> "file", isPublic |-> FALSE, parentId |-> parentId,
            localPath |-> ListedPaths[i]]

InitList ==
  /\ sessions = StoredSessions
  /\ setCalls = <<>>
  /\ \E n \in ListSizes, mode \in ListModes :
       /\ files = [i \in 1..n |-> ListedEntry(i, mode)]
       /\ disk = [path \in {PathOf(ListedPaths[i], 0) : i \in 2..n} |->
                    BufferFromBase64(PayloadHi)]
       /\ submitted = [id \in {ListedIds[i] : i \in 2..n} |-> PayloadHi]
  /\ queues = [n \in QueueNames |-> <<>>]
  /\ inflight = EmptyBag
  /\ workers = [w \in Workers |-> [pc |-> "idle"]]
  /\ resp = NoResp

NextList ==
  \E token \in Tokens, parentId \in {Root, BadId, GhostId, ListedIds[1]},
     pageQuery \in PageQueries :
    getIndex(token, parentId, pageQuery)

SpecList == InitList /\ [][NextList]_vars

\* ------------------------------------------------------------------ claims

\* The user ids a request may resolve to; Null is the anonymous caller.
Callers == Users \cup {Null}

\* The reference predicate of a permitted read.
CanRead(file, userId) ==
  file.isPublic \/ (userId # Null /\ userId = file.userId)

\* The entry is stored, has content, and a derivative of it is on disk.
HasDerivative(file) ==
  /\ "localPath" \in DOMAIN file
  /\ \E size \in Sizes : PathOf(file.localPath, size) \in DOMAIN disk

\* C1: for every stored entry and every caller or the anonymous caller,
\* the read-permission predicate of either copy of the content fetch is
\* true exactly when the entry is public or the caller is its owner.
C1_ReadPredicate ==
  \A i \in DOMAIN files, userId \in Callers :
    /\ isOwnerAndPublic(files[i], userId) = CanRead(files[i], userId)
    /\ matchesOwnerOrPublic(files[i], userId) = CanRead(files[i], userId)

\* A content fetch by another user was answered for an entry made public
\* by its owner after creation.
C1_Witness ==
  /\ resp.op = "getFile" /\ resp.status = 200 /\ resp.userId = "u2"
  /\ \E i \in DOMAIN files :
       files[i].id = resp.fileId /\ files[i].userId = "u1" /\ files[i].isPublic

\* C2: a content fetch of an entry whose isPublic is false, by the
\* anonymous caller or by a user other than the owner, is answered 404
\* without bytes, whatever size is asked for and in either copy.
C2_PrivateFetchRejected ==
  \A i \in DOMAIN files, token \in Tokens, variant \in Variants,
     size \in FetchSizes :
    LET reply == getFileReply(variant, token, files[i].id, size)
    IN  (files[i].isPublic = FALSE /\ getUserIdAndKey(token) # files[i].userId)
          => reply.status = 404 /\ reply.data = <<>>

\* A fetch by the anonymous caller was answered 404 for a private file
\* whose content is on disk.
C2_Witness ==
  /\ resp.op = "getFile" /\ resp.status = 404 /\ resp.userId = Null
  /\ \E i \in DOMAIN files :
       /\ files[i].id = resp.fileId /\ files[i].type # "folder"
       /\ files[i].isPublic = FALSE
       /\ PathOf(files[i].localPath, 0) \in DOMAIN disk

\* C3 as stated: a content fetch without size of any public entry succeeds
\* for every caller.
C3_PublicFetchSucceeds ==
  \A i \in DOMAIN files, token \in Tokens, variant \in Variants :
    files[i].isPublic = TRUE
      => getFileReply(variant, token, files[i].id, 0).status = 200

\* C3, amended: a content fetch without size of a public entry of type
\* file or image succeeds with the content for every caller.
C3_PublicContentFetchSucceeds ==
  \A i \in DOMAIN files, token \in Tokens, variant \in Variants :
    LET reply == getFileReply(variant, token, files[i].id, 0)
    IN  (files[i].isPublic = TRUE /\ files[i].type \in {"file", "image"})
          => /\ reply.status = 200
             /\ reply.data = disk[PathOf(files[i].localPath, 0)]

\* The anonymous caller fetched the content of a public image.
C3_Witness ==
  /\ resp.op = "getFile" /\ resp.status = 200 /\ resp.userId = Null
  /\ resp.size = 0
  /\ \E i \in DOMAIN files :
       files[i].id = resp.fileId /\ files[i].type = "image"

\* The bytes of the two payloads: "hello" and "hi".
Decoded(data) ==
  IF data = PayloadHello THEN <<104, 101, 108, 108, 111>>
  ELSE IF data = PayloadHi THEN <<104, 105>>
  ELSE <<>>

\* C4: a content fetch without size of a stored file or image by its owner
\* returns exactly the base64-decoded bytes of the data its creation
\* request carried.
C4_RoundTrip ==
  \A i \in DOMAIN files, token \in Tokens, variant \in Variants :
    LET reply == getFileReply(variant, token, files[i].id, 0)
    IN  (files[i].type # "folder" /\ getUserIdAndKey(token) = files[i].userId)
          => /\ reply.status = 200
             /\ reply.data = BufferFromBase64(submitted[files[i].id])
             /\ reply.data = Decoded(submitted[files[i].id])

\* The owner fetched "hello" from the first entry after a second entry
\* with the other payload was stored, the first was made public and a
\* derivative of it was written.
C4_Witness ==
  /\ resp.op = "getFile" /\ resp.status = 200 /\ resp.userId = "u1"
  /\ resp.data = <<104, 101, 108, 108, 111>>
  /\ Len(files) = 2
  /\ files[1].isPublic /\ HasDerivative(files[1])
  /\ submitted[files[2].id] = PayloadHi

\* The tokens of the signed-in users.
SignedIn == {token \in Tokens : getUserIdAndKey(token) \in Users}

\* The first of the three field checks a body fails, in the order name,
\* type, data, or Null.
FirstMissing(body) ==
  IF body.name = Null THEN "Missing name"
  ELSE IF body.type = Null THEN "Missing type"
  ELSE IF body.data = <<>> /\ body.type \in {"file", "image"}
    THEN "Missing data"
  ELSE Null

\* The reply now shown rejects a signed-in user's creation request for a
\* missing field.
MissingFieldReply(r) ==
  /\ r.op = "postUpload" /\ r.status = 400
  /\ r.error \in {"Missing name", "Missing type", "Missing data"}

\* C5: a creation request by a signed-in user that fails one of the field
\* checks is answered 400 with the message of the first failing check in
\* the order name, type, data, and the step that answers it changes neither
\* the stored entries nor the disk nor the job queues.
C5_MissingFields ==
  /\ [](\A token \in SignedIn, body \in Bodies :
          FirstMissing(body) # Null =>
            LET reply == postUploadReply(token, body)
            IN  /\ reply # NoResp
                /\ reply.status = 400
                /\ reply.error = FirstMissing(body))
  /\ [][MissingFieldReply(resp') =>
          UNCHANGED <<files, disk, queues, submitted>>]_vars

\* A request that lacks both its name and its type was answered
\* "Missing name" while another upload was in flight and an entry stored.
C5_Witness ==
  /\ MissingFieldReply(resp) /\ resp.error = "Missing name"
  /\ resp.body.name = Null /\ resp.body.type = Null
  /\ Len(files) = 1 /\ BagCardinality(inflight) = 1

\* The body passes the field checks.
FieldsPresent(body) == FirstMissing(body) = Null

\* The parentId resolves to a stored entry of one of the types.
ResolvesTo(parentId, types) ==
  \E i \in DOMAIN files : files[i].id = parentId /\ files[i].type \in types

\* C6: a creation request by a signed-in user, with all fields present,
\* whose parentId is not the root and is malformed or resolves to no entry
\* is answered 400 "Parent not found", and one whose parentId resolves to a
\* file or an image is answered 400 "Parent is not a folder".
C6_ParentRejected ==
  \A token \in SignedIn, body \in Bodies :
    LET reply == postUploadReply(token, body)
    IN  (FieldsPresent(body) /\ body.parentId # Root) =>
          /\ ~ResolvesTo(body.parentId, typesAllowed) =>
               /\ reply # NoResp
               /\ reply.status = 400 /\ reply.error = "Parent not found"
          /\ ResolvesTo(body.parentId, {"file", "image"}) =>
               /\ reply # NoResp
               /\ reply.status = 400 /\ reply.error = "Parent is not a folder"

\* C7: the parentId of every stored entry is the root or the id of a
\* stored folder.
C7_ParentIsFolder ==
  \A i \in DOMAIN files :
    files[i].parentId = Root \/ ResolvesTo(files[i].parentId, {"folder"})

\* C8: a creation whose disk write failed is answered 400 with the error
\* of the write, and no entry is stored for it.
C8_WriteFailureRejected ==
  /\ [](resp.op = "postUpload" /\ "saveError" \in DOMAIN resp =>
          /\ resp.status = 400
          /\ "error" \in DOMAIN resp /\ resp.error = resp.saveError)
  /\ [][resp'.op = "postUpload" /\ "saveError" \in DOMAIN resp' =>
          UNCHANGED files]_vars

\* The k-th job of the controller's queue was added by an image upload.
UploadJob(k) ==
  /\ k \in DOMAIN queues[ControllerQueue]
  /\ queues[ControllerQueue][k].data.fileId # Null

\* The k-th job of the controller's queue is complete and the owner's
\* fetch of its image with size 100 returns bytes.
UploadJobServed(k) ==
  /\ k \in DOMAIN queues[ControllerQueue]
  /\ LET job == queues[ControllerQueue][k]
     IN  /\ job.state = "completed"
         /\ \A variant \in Variants, token \in SignedIn :
              getUserIdAndKey(token) = job.data.userId =>
                LET reply == getFileReply(variant, token, job.data.fileId, 100)
                IN  reply.status = 200 /\ reply.data # <<>>

\* C9: with a running worker, generations that succeed and fair
\* scheduling, the job an image upload added is eventually complete and
\* the owner's fetch of the image with size 100 then returns bytes.
C9_UploadJobCompletes ==
  \A k \in 1..MaxFiles : UploadJob(k) ~> UploadJobServed(k)

\* A job naming the entry is complete, in whichever queue.
JobComplete(fileId) ==
  \E n \in QueueNames : \E k \in DOMAIN queues[n] :
    queues[n][k].data.fileId = fileId /\ queues[n][k].state = "completed"

\* C10: as long as no thumbnail job of a stored image is complete, a
\* content fetch of the image with size 100 is answered 404.
C10_NoThumbnailBeforeComplete ==
  \A i \in DOMAIN files, token \in Tokens, variant \in Variants :
    (files[i].type = "image" /\ ~JobComplete(files[i].id)) =>
      getFileReply(variant, token, files[i].id, 100).status = 404

\* The k-th job of the worker's queue is being processed.
JobActive(k) ==
  /\ k \in DOMAIN queues[WorkerQueue]
  /\ queues[WorkerQueue][k].state = "active"

\* The k-th job of the worker's queue is done or failed.
JobTerminal(k) ==
  /\ k \in DOMAIN queues[WorkerQueue]
  /\ queues[WorkerQueue][k].state \in {"completed", "failed"}

\* C11: every job the worker starts processing eventually is completed or
\* failed, and once it is, it stays so; jobs without fileId or userId and
\* jobs whose file is not found included.
C11_JobTerminates ==
  \A k \in 1..(MaxJobs + 1) :
    /\ JobActive(k) ~> JobTerminal(k)
    /\ [](JobTerminal(k) => []JobTerminal(k))

\* The stored entry of that id is owned by the user.
Owns(userId, fileId) ==
  \E i \in DOMAIN files : files[i].id = fileId /\ files[i].userId = userId

\* C12: a publish or unpublish of a stored entry by a caller who is not
\* its owner is answered 404 when the caller is another signed-in user
\* and 401 when the caller is anonymous, and isPublic of an entry changes
\* only in a step that answers 200 to its owner, whatever requests are in
\* flight.
C12_NonOwnerToggleRejected ==
  /\ [](\A i \in DOMAIN files, token \in Tokens, setPublish \in BOOLEAN :
          LET userId == getUserIdAndKey(token)
              reply == publishUnpublishReply(token, files[i].id, setPublish)
          IN  userId # files[i].userId =>
                /\ reply # NoResp
                /\ reply.status = IF userId = Null THEN 401 ELSE 404)
  /\ [][\A i \in DOMAIN files :
          files'[i].isPublic # files[i].isPublic =>
            /\ resp'.op = "publishUnpublish" /\ resp'.status = 200
            /\ getUserIdAndKey(resp'.token) = files[i].userId]_vars

\* The second user's request on the first user's entry was answered 404
\* while a request of the owner on that entry waited for its update.
C12_Witness ==
  /\ resp.op = "publishUnpublish" /\ resp.status = 404 /\ resp.token = "t2"
  /\ Owns("u1", resp.fileId)
  /\ \E r \in Inflight :
       r.op = "publishUnpublish" /\ r.fileId = resp.fileId /\ r.token = "t1"

\* The stored entry of that id.
Entry(docs, fileId) ==
  docs[CHOOSE i \in DOMAIN docs : docs[i].id = fileId]

\* C13: when the owner applies publish, or unpublish, to an entry twice
\* in a row, the second update finds the entry again, leaves the store as
\* the first left it and yields the same projection; a request answered
\* 200 for the value the entry already has leaves the store unchanged and
\* returns the projection of the stored entry.
C13_ToggleIdempotent ==
  /\ [](\A i \in DOMAIN files, setPublish \in BOOLEAN :
          LET id == files[i].id
              owner == files[i].userId
              once == findOneAndUpdate(files, id, owner, setPublish)
              twice == findOneAndUpdate(once, id, owner, setPublish)
          IN  /\ \E j \in DOMAIN once :
                   once[j].id = id /\ once[j].userId = owner
              /\ twice = once
              /\ Entry(once, id).isPublic = setPublish
              /\ updatedFile(Entry(twice, id)) = updatedFile(Entry(once, id)))
  /\ [][(/\ resp'.op = "publishUnpublish" /\ resp'.status = 200
         /\ Entry(files, resp'.fileId).isPublic = resp'.setPublish)
          => /\ files' = files
             /\ resp'.body = updatedFile(Entry(files, resp'.fileId))]_vars

\* The owner was answered 200 for publishing an entry, which is public,
\* and the same request of the owner is in flight again.
C13_Witness ==
  /\ resp.op = "publishUnpublish" /\ resp.status = 200 /\ resp.setPublish
  /\ Owns(getUserIdAndKey(resp.token), resp.fileId)
  /\ Entry(files, resp.fileId).isPublic
  /\ \E r \in Inflight :
       /\ r.op = "publishUnpublish" /\ r.token = resp.token
       /\ r.fileId = resp.fileId /\ r.setPublish = resp.setPublish

\* C14: each update of the owner's publish and unpublish requests is one
\* atomic write of that request's value to isPublic of that entry alone,
\* so that after every update, and hence once concurrent requests have all
\* finished, the stored isPublic is the value of the update applied last.
C14_LastWriteWins ==
  /\ [](resp.op = "publishUnpublish" /\ resp.status = 200 =>
          /\ Entry(files, resp.fileId).isPublic = resp.setPublish
          /\ resp.body.isPublic = resp.setPublish)
  /\ [][resp'.op = "publishUnpublish" /\ resp'.status = 200 =>
          \A i \in DOMAIN files :
            files'[i] = IF files[i].id = resp'.fileId
                        THEN [files[i] EXCEPT !.isPublic = resp'.setPublish]
                        ELSE files[i]]_vars

\* The owner's unpublish of an entry was applied while the owner's publish
\* of the same entry, looked up earlier, still waits for its update.
C14_Witness ==
  /\ resp.op = "publishUnpublish" /\ resp.status = 200 /\ ~resp.setPublish
  /\ ~Entry(files, resp.fileId).isPublic
  /\ \E r \in Inflight :
       /\ r.op = "publishUnpublish" /\ r.token = resp.token
       /\ r.fileId = resp.fileId /\ r.setPublish

\* What the client receives of a reply: status and body.
Sent(reply) ==
  [status |-> reply.status,
   body |-> IF "body" \in DOMAIN reply THEN reply.body
            ELSE [error |-> reply.error]]

\* C15: the metadata fetch returns an entry only to its owner, and to a
\* signed-in caller the reply for an entry of someone else is the same
\* 404 "Not found" as for a malformed id and for an id of no entry, so
\* the replies depend on the caller's own entries alone.
C15_ShowHidesOthers ==
  \A token \in SignedIn, fileId \in PathIds :
    LET userId == getUserIdAndKey(token)
        reply == getShowReply(token, fileId)
    IN  IF Owns(userId, fileId)
        THEN /\ reply.status = 200
             /\ reply.body = processFile(Entry(files, fileId))
             /\ reply.body.userId = userId
        ELSE /\ Sent(reply) = [status |-> 404, body |-> [error |-> "Not found"]]
             /\ Sent(reply) = Sent(getShowReply(token, BadId))
             /\ Sent(reply) = Sent(getShowReply(token, GhostId))

\* The first user was answered 404 for the entry of the second.
C15_Witness ==
  /\ resp.op = "getShow" /\ resp.status = 404 /\ resp.token = "t1"
  /\ Owns("u2", resp.fileId)

\* The fields of the projection of an entry.
Projection == {"id", "userId", "name", "type", "isPublic", "parentId"}

\* C16: every entry in the body of a successful reply of upload, metadata
\* fetch, listing, publish or unpublish has exactly the fields id, userId,
\* name, type, isPublic and parentId, and so never localPath.
C16_NoLocalPath ==
  /\ (resp.op \in {"postUpload", "publishUnpublish"}
        /\ resp.status \in {200, 201}) => DOMAIN resp.body = Projection
  /\ \A token \in Tokens, fileId \in PathIds :
       LET reply == getShowReply(token, fileId)
       IN  reply.status = 200 => DOMAIN reply.body = Projection
  /\ \A token \in Tokens, parentId \in ListParents, pageQuery \in PageQueries :
       LET reply == getIndexReply(token, parentId, pageQuery)
       IN  reply.status = 200 =>
             \A k \in DOMAIN reply.body : DOMAIN reply.body[k] = Projection

\* The upload of a file, whose stored entry has a localPath, was answered
\* 201.
C16_Witness ==
  /\ resp.op = "postUpload" /\ resp.status = 201 /\ resp.body.type = "file"
  /\ "localPath" \in DOMAIN Entry(files, resp.body.id)

\* C17: every entry a listing returns to a signed-in caller is owned by
\* that caller, for the root as for a folder.
C17_ListOwnEntries ==
  \A token \in SignedIn, parentId \in ListParents, pageQuery \in PageQueries :
    LET reply == getIndexReply(token, parentId, pageQuery)
    IN  reply.status = 200 =>
          \A k \in DOMAIN reply.body :
            reply.body[k].userId = getUserIdAndKey(token)

\* The parentId names no stored folder.
NoFolder(parentId) == ~ResolvesTo(parentId, {"folder"})

\* C18: a listing by a signed-in user under a well-formed parentId that
\* resolves to no entry or to an entry that is not a folder is answered
\* 200 with an empty list, whatever the page.
C18_ListMissingParent ==
  \A token \in SignedIn, pageQuery \in PageQueries,
     parentId \in ListParents \ {Root, BadId} :
    NoFolder(parentId) =>
      Sent(getIndexReply(token, parentId, pageQuery))
        = [status |-> 200, body |-> <<>>]

\* A listing under the id of a stored file was answered 200 with an empty
\* list.
C18_Witness ==
  /\ resp.op = "getIndex" /\ resp.status = 200 /\ resp.body = <<>>
  /\ resp.token \in SignedIn
  /\ ResolvesTo(resp.parentId, {"file"})

\* The positions of the entries under the parent, in the store's order.
Under(parentId) == {i \in DOMAIN files : files[i].parentId = parentId}

\* The position in the store of the j-th entry under the parent.
NthUnder(parentId, j) ==
  CHOOSE i \in Under(parentId) :
    Cardinality({m \in Under(parentId) : m < i}) = j - 1

\* How many entries the page p holds when n entries match.
OnPage(n, p) ==
  IF n - p * PageSize <= 0 THEN 0
  ELSE IF n - p * PageSize < PageSize THEN n - p * PageSize
  ELSE PageSize

C20_ListAnyPage ==
  \A token \in SignedIn, pageQuery \in PageQueries :
    LET reply == getIndexReply(token, Root, pageQuery)
    IN  /\ reply.status = 200
        /\ "body" \in DOMAIN reply
        /\ pageQuery \in {<<>>, <<"a">>} =>
             Sent(reply) = Sent(getIndexReply(token, Root, <<"0">>))

\* The tokens a request may present: those of the services, and one that
\* no session was ever stored for.
Presented == Tokens \cup AuthTokens \cup {"t9"}

\* The token is missing, unknown to the session store, or resolves to a
\* user that does not exist.
Unauthenticated(token) ==
  \/ token = Null
  \/ RedisGet(sessions, KeyOf(token)) = Null
  \/ RedisGet(sessions, KeyOf(token)) \notin Users

\* Upload bodies of every shape the validation tells apart: with and
\* without a name, of each type and of none, with and without data, under
\* the root and under a malformed parent.
ShapedBodies ==
  [name : {"a.png", Null}, type : typesAllowed \cup {Null},
   isPublic : {FALSE}, data : {PayloadHi, <<>>}, parentId : {Root, BadId}]

\* The reply is 401 {error: 'Unauthorized'}.
Unauthorized(reply) ==
  reply # NoResp /\ reply.status = 401 /\ reply.error = "Unauthorized"

\* The operations on file entries that need a user.
FileOps == {"postUpload", "getIndex", "getShow", "publishUnpublish"}

\* C21: an upload, a listing, a metadata fetch, a publish and an unpublish
\* that present no token, a token the session store does not know or a
\* token of a user that does not exist are all answered 401
\* {error: 'Unauthorized'}, and the step that answers them leaves the
\* file entries as they are and starts no request that would add one.
C21_UnauthenticatedRejected ==
  /\ [](\A token \in Presented :
          Unauthenticated(token) =>
            /\ \A body \in ShapedBodies :
                 Unauthorized(postUploadReply(token, body))
            /\ \A parentId \in ListParents, pageQuery \in PageQueries :
                 Unauthorized(getIndexReply(token, parentId, pageQuery))
            /\ \A fileId \in PathIds :
                 /\ Unauthorized(getShowReply(token, fileId))
                 /\ \A setPublish \in BOOLEAN :
                      Unauthorized(
                        publishUnpublishReply(token, fileId, setPublish)))
  /\ [][(resp'.op \in FileOps /\ Unauthorized(resp')
           /\ Unauthenticated(resp'.token)) =>
          (files' = files /\ inflight' = inflight)]_vars

\* With an entry stored and the first user signed out, a request with
\* that user's token or with the token of the deleted user was answered
\* 401.
C21_Witness ==
  /\ files # <<>>
  /\ resp.op \in FileOps /\ Unauthorized(resp)
  /\ resp.token \in {StaleToken, "t1"}
  /\ KeyOf("t1") \notin DOMAIN sessions

\* The user whose email and password the header carries as
\* 'Basic ' base64(email:password), or NoDoc.
Presents(authHeader) ==
  findOneUser(
    {u \in UserDocs :
       /\ Len(authHeader) > 6 /\ SubSeq(authHeader, 1, 6) = Basic
       /\ \E password \in {<<120>>, <<121>>} :
            /\ sha1(password) = u.password
            /\ BufferFromBase64(SubSeq(authHeader, 7, Len(authHeader)))
                 = u.email \o <<Colon>> \o password})

\* 24 * 3600 seconds, the life of a session.
DaySeconds == 24 * 3600

\* C22: a sign-in that is answered 200 calls the session store's set
\* exactly once, with the key auth_<token> of the token it returns, the id
\* of the user whose credentials were presented, and 86400 seconds.
C22_SessionStored ==
  [][(resp'.op = "getConnect" /\ resp'.status = 200) =>
       setCalls' = Append(setCalls, <<Str(KeyOf(resp'.token)),
                                      Str(Presents(resp'.header).id),
                                      Num(DaySeconds)>>)]_vars

\* C23: a sign-in whose header carries no user's credentials (no header,
\* another scheme, malformed or wrong credentials) is answered 401
\* {error: 'Unauthorized'} and stores no session.
C23_SignInRejected ==
  [][(resp'.op = "getConnect" /\ Presents(resp'.header) = NoDoc) =>
       (Unauthorized(resp') /\ sessions' = sessions)]_vars

\* Every operation that presents the token is answered 401.
Rejected(token) ==
  /\ Unauthorized(getMeReply(token))
  /\ \A variant \in AuthVariants :
       Unauthorized(getDisconnectReply(variant, token))
  /\ \A body \in ShapedBodies : Unauthorized(postUploadReply(token, body))
  /\ \A parentId \in ListParents, pageQuery \in PageQueries :
       Unauthorized(getIndexReply(token, parentId, pageQuery))
  /\ \A fileId \in PathIds :
       /\ Unauthorized(getShowReply(token, fileId))
       /\ \A setPublish \in BOOLEAN :
            Unauthorized(publishUnpublishReply(token, fileId, setPublish))

\* The tokens handed out so far: those of the stored sessions and those
\* the sign-ins returned.
HandedOut ==
  {"t1", "t2", StaleToken} \cup {TokenIds[i] : i \in 1..Len(setCalls)}

C25_CurrentUser ==
  \A token \in Presented :
    LET reply == getMeReply(token)
    IN  /\ token = Null => Unauthorized(reply)
        /\ ~Unauthenticated(token) =>
             /\ reply.status = 200
             /\ \E i \in DOMAIN usersCollection :
                  /\ usersCollection[i].id = getUserIdAndKey(token)
                  /\ reply.body = [id |-> usersCollection[i].id,
                                    email |-> usersCollection[i].email]

\* A current-user request with the token a sign-in returned was answered
\* with the first user.
C25_Witness ==
  /\ resp.op = "getMe" /\ resp.status = 200 /\ resp.token = TokenIds[1]
  /\ resp.body.id = "u1"

\* C26: a content fetch of a folder the caller may read (its owner, or
\* anyone when it is public) is answered 400 with the error "A folder
\* doesn't have content", not the 404 of a missing entry, and no bytes,
\* in both copies of getFile and for every size.
C26_FolderHasNoContent ==
  \A i \in DOMAIN files, token \in Tokens, variant \in Variants,
     size \in FetchSizes :
    LET reply == getFileReply(variant, token, files[i].id, size)
    IN  (files[i].type = "folder"
           /\ CanRead(files[i], getUserIdAndKey(token))) =>
          /\ reply.status = 400
          /\ reply.error = "A folder doesn't have content"
          /\ reply.error # "Not found"
          /\ reply.data = <<>>

\* The content of a public folder was asked for by a caller who is not
\* its owner, and the answer was 400.
C26_Witness ==
  /\ resp.op = "getFile" /\ resp.status = 400
  /\ \E i \in DOMAIN files :
       /\ files[i].id = resp.fileId /\ files[i].type = "folder"
       /\ files[i].isPublic /\ files[i].userId # resp.userId

\* C27: every job on the controller's queue names a stored image entry:
\* a job is added only once the row of its image is persisted, and an
\* upload that persists no row adds none.
C27_JobAfterRow ==
  \A k \in DOMAIN queues[ControllerQueue] :
    \E i \in DOMAIN files :
      /\ files[i].id = queues[ControllerQueue][k].data.fileId
      /\ files[i].type = "image"

\* The jobs of the controller's queue that name the entry.
JobsFor(fileId) ==
  {k \in DOMAIN queues[ControllerQueue] :
     queues[ControllerQueue][k].data.fileId = fileId}

\* C28: the step that answers 201 to the creation of an image adds exactly
\* one job, with the id of the new entry and the id of its owner, and the
\* step that answers 201 to the creation of a file or a folder adds none;
\* at no time does the queue hold a job for a file or a folder, a second
\* job for an image, or a job with another user than the owner.
C28_OneJobPerImage ==
  /\ [](\A i \in DOMAIN files :
          /\ Cardinality(JobsFor(files[i].id))
               <= (IF files[i].type = "image" THEN 1 ELSE 0)
          /\ \A k \in JobsFor(files[i].id) :
               queues[ControllerQueue][k].data.userId = files[i].userId)
  /\ [][(resp'.op = "postUpload" /\ resp'.status = 201) =>
          IF resp'.body.type = "image"
          THEN /\ Owns(resp'.body.userId, resp'.body.id)
               /\ queues' =
                    [queues EXCEPT ![ControllerQueue] =
                       Append(@, [data |-> [fileId |-> resp'.body.id,
                                            userId |-> resp'.body.userId],
                                  state |-> "waiting"])]
          ELSE queues' = queues]_vars

\* The creation of an image by the second user was answered 201 while
\* another upload was in flight, and the queue holds its job.
C28_Witness ==
  /\ resp.op = "postUpload" /\ resp.status = 201
  /\ resp.body.type = "image" /\ resp.body.userId = "u2"
  /\ JobsFor(resp.body.id) # {}
  /\ Inflight # {}

\* C29: an image creation whose addition to the queue failed, after the
\* row was persisted, is still answered 201 with the created entry.
C29_EnqueueFailureAnswered ==
  [][\A r \in Inflight :
       (r.pc = "enqueue" /\ inflight' = Finish(r)
          /\ queues' = queues /\ resp'.op = "postUpload") =>
         (resp'.status = 201 /\ resp'.body = r.newFile)]_vars

\* C30: every stored file or image entry has the decoded content its
\* creation request carried on disk at its localPath, whatever uploads
\* are in flight.
C30_ContentBeforeRow ==
  \A i \in DOMAIN files :
    files[i].type \in {"file", "image"} =>
      /\ PathOf(files[i].localPath, 0) \in DOMAIN disk
      /\ disk[PathOf(files[i].localPath, 0)] = Decoded(submitted[files[i].id])

\* An entry with content is stored while another upload has written its
\* content and not yet inserted its row.
C30_Witness ==
  /\ \E i \in DOMAIN files : files[i].type \in {"file", "image"}
  /\ \E r \in Inflight : r.pc = "insert" /\ "localPath" \in DOMAIN r.query

\* The jobs of the worker's queue, and the state of the k-th one.
Jobs == DOMAIN queues[WorkerQueue]
JobState(k) == queues[WorkerQueue][k].state

\* The k-th job of the worker's queue becomes completed in this step.
MarkedDone(k) ==
  /\ k \in Jobs /\ JobState(k) # "completed"
  /\ queues'[WorkerQueue][k].state = "completed"

\* The paths of the three derivatives of the entry the job names.
DerivativePaths(k) ==
  {PathOf(getFile(queues[WorkerQueue][k].data.fileId).localPath, s) :
     s \in Sizes}

\* C31: a job is marked done only by an execution whose three
\* generations have all written, and whenever a job is done the three
\* derivatives localPath_500, localPath_250 and localPath_100 of its image
\* are on disk.
C31_DoneAfterThreeWrites ==
  /\ [](\A k \in Jobs :
          JobState(k) = "completed" => DerivativePaths(k) \subseteq DOMAIN disk)
  /\ [][\A k \in Jobs :
          MarkedDone(k) =>
            \E w \in DOMAIN workers :
              /\ workers[w].pc = "generating" /\ workers[w].job = k
              /\ \A s \in Sizes : workers[w].gen[s] = "written"]_vars

\* One job of the image is done and another one of it has failed.
C31_Witness ==
  /\ \E k \in Jobs : JobState(k) = "completed"
  /\ \E k \in Jobs : JobState(k) = "failed"

\* An execution of the k-th job has a generation that failed and has not
\* yet reported.
Failing(k) ==
  \E w \in DOMAIN workers :
    /\ workers[w].pc = "generating" /\ workers[w].job = k
    /\ \E s \in Sizes : workers[w].gen[s] = "failed"

\* The k-th job is marked failed.
Failed(k) == k \in Jobs /\ JobState(k) = "failed"

\* C32: an execution one of whose three generations failed marks its job
\* failed, with the error of a generation that failed as the reason, and
\* never done; the completion callback is invoked once: a job that is
\* completed or failed is not marked again.
C32_FailureFailsJob ==
  /\ \A k \in 1..(MaxJobs + 1) : Failing(k) ~> Failed(k)
  /\ [][\A k \in Jobs :
          /\ Failing(k) => queues'[WorkerQueue][k].state # "completed"
          /\ (~Failed(k) /\ queues'[WorkerQueue][k].state = "failed") =>
               \E w \in DOMAIN workers :
                 /\ workers[w].pc = "generating" /\ workers[w].job = k
                 /\ \E s \in Sizes :
                      /\ workers[w].gen[s] = "failed"
                      /\ queues'[WorkerQueue][k].failedReason = ErrorOf(s)
          /\ JobTerminal(k) =>
               queues'[WorkerQueue][k] = queues[WorkerQueue][k]]_vars

\* A job was marked failed with the error of the generation of width 250
\* after the derivative of width 500 had been written.
C32_Witness ==
  \E k \in Jobs :
    /\ Failed(k) /\ queues[WorkerQueue][k].failedReason = ErrorOf(250)
    /\ \E i \in DOMAIN files :
         /\ files[i].id = queues[WorkerQueue][k].data.fileId
         /\ PathOf(files[i].localPath, 500) \in DOMAIN disk

\* The k-th job lacks fileId or userId, or its pair is that of no entry.
Unmatched(k) ==
  LET data == queues[WorkerQueue][k].data
  IN  \/ data.fileId = Null
      \/ data.userId = Null
      \/ ~\E i \in DOMAIN files :
            files[i].id = data.fileId /\ files[i].userId = data.userId

\* C33: a job without fileId or userId, or whose (fileId, userId) pair is
\* that of no entry, is never marked done, and every step that writes a
\* derivative belongs to the execution of a job whose pair is that of an
\* entry.
C33_UnmatchedJobWritesNothing ==
  /\ [](\A k \in Jobs : Unmatched(k) => JobState(k) # "completed")
  /\ [][disk' # disk =>
          \E w \in DOMAIN workers :
            /\ workers'[w] # workers[w]
            /\ workers[w].pc \in {"generating", "reported"}
            /\ ~Unmatched(workers[w].job)]_vars

\* A worker took the job that names the first image with the other user
\* and found no file, while derivatives of that image are on disk.
C33_Witness ==
  /\ \E w \in DOMAIN workers :
       /\ workers[w].pc = "thrown" /\ workers[w].error = "File not found"
       /\ queues[WorkerQueue][workers[w].job].data.fileId = FileIds[1]
  /\ \E p \in DOMAIN disk : p[2] # 0

\* C34: however often and however concurrently the jobs of an image are
\* processed, a step of the worker leaves every file that is on disk as
\* it is (the original, the files of other entries, and a derivative that
\* is written again), and a file it adds is one of the three derivatives
\* localPath_500, localPath_250, localPath_100 of the image of the job in
\* execution, computed from the original.
C34_ReprocessingIsIdempotent ==
  [][/\ \A p \in DOMAIN disk : p \in DOMAIN disk' /\ disk'[p] = disk[p]
     /\ \A p \in DOMAIN disk' \ DOMAIN disk :
          \E w \in DOMAIN workers, s \in Sizes :
            /\ workers[w].pc \in {"generating", "reported"}
            /\ LET file == getFile(queues[WorkerQueue][workers[w].job]
                                      .data.fileId)
               IN  /\ p = PathOf(file.localPath, s)
                   /\ disk'[p] = Thumbnail(disk[PathOf(file.localPath, 0)], s)
    ]_vars

\* Two executions of jobs of the same image run at once and both have
\* written the derivative of the same width.
C34_Witness ==
  /\ \A w \in DOMAIN workers : workers[w].pc = "generating"
  /\ \E s \in Sizes :
       \A w \in DOMAIN workers : workers[w].gen[s] = "written"
  /\ Cardinality(DOMAIN workers) > 1

\* C35: no step removes an entry or changes a field of a stored entry
\* other than isPublic, and isPublic of an entry changes only in a step
\* that answers a publish or unpublish of that very entry: the userId,
\* name, type, parentId and localPath of the entry, and every other
\* entry, stay as they were created.
C35_PublishChangesOnlyIsPublic ==
  [][/\ Len(files') >= Len(files)
     /\ \A i \in DOMAIN files :
          /\ files'[i] = [files[i] EXCEPT !.isPublic = files'[i].isPublic]
          /\ files'[i].isPublic # files[i].isPublic =>
               /\ resp'.op = "publishUnpublish" /\ resp'.status = 200
               /\ resp'.fileId = files[i].id]_vars

\* The first entry was published while the same owner has a second entry,
\* which is still private.
C35_Witness ==
  /\ resp.op = "publishUnpublish" /\ resp.status = 200
  /\ Len(files) >= 2
  /\ files[1].isPublic /\ resp.fileId = files[1].id
  /\ files[2].userId = files[1].userId /\ ~files[2].isPublic

\* C36: a step of an operation that resolves the identity of its request
\* from the token (an upload, a listing, a metadata fetch, a publication,
\* a current-user request) leaves the session store as it was: no key is
\* added, none is removed, the user under every key is the same, and no
\* set is issued, so the time to live of the session looked up is not
\* extended.
C36_LookupLeavesSessions ==
  [][(resp'.op \in FileOps \cup {"getMe"} \/ inflight' # inflight) =>
       /\ DOMAIN sessions' = DOMAIN sessions
       /\ \A key \in DOMAIN sessions : sessions'[key] = sessions[key]
       /\ setCalls' = setCalls]_vars

\* A publication was answered 200 for the token of a sign-in: its
\* session is still the one the sign-in made, set once.
C36_Witness ==
  /\ resp.op = "publishUnpublish" /\ resp.status = 200
  /\ resp.token = TokenIds[1]
  /\ RedisGet(sessions, KeyOf(resp.token)) \in Users
  /\ Len(setCalls) = 1

\* The entries and the requests past their write that a path of the disk
\* may belong to: those of type file or image.
ContentOwners ==
  {files[i].localPath :
     i \in {j \in DOMAIN files : "localPath" \in DOMAIN files[j]}}
  \cup {r.query.localPath :
          r \in {q \in Inflight : q.pc = "insert" /\
                                    "localPath" \in DOMAIN q.query}}

\* C37: an entry of type folder has no localPath, whatever data its
\* request carried, and an entry of type file or image has one; every
\* file on disk is the content of an entry of type file or image or of
\* such an upload about to be inserted, so no folder has content on disk.
C37_FolderHasNoContent ==
  /\ \A i \in DOMAIN files :
       /\ files[i].type = "folder" => "localPath" \notin DOMAIN files[i]
       /\ files[i].type \in {"file", "image"} =>
            /\ "localPath" \in DOMAIN files[i]
            /\ files[i].localPath # Null
  /\ \A r \in Inflight :
       (r.pc = "insert" /\ "localPath" \in DOMAIN r.query) =>
         r.query.type \in {"file", "image"}
  /\ \A p \in DOMAIN disk : p[1] \in ContentOwners

\* A folder was created by a request that carried data, beside an entry
\* of type file whose content is on disk: the disk holds one file only.
C37_Witness ==
  \E i, j \in DOMAIN files :
    /\ files[i].type = "folder" /\ submitted[files[i].id] # <<>>
    /\ files[j].type = "file"
    /\ PathOf(files[j].localPath, 0) \in DOMAIN disk
    /\ Cardinality(DOMAIN disk) = 1

\* C38: an entry whose parent is a stored entry has the owner of that
\* entry, so an upload that names a folder of another user as its parent
\* creates no entry under that folder.
C38_ParentOwnedBySameUser ==
  \A i, j \in DOMAIN files :
    files[j].id = files[i].parentId =>
      files[j].userId = files[i].userId
\* C39: once a worker has reported the failure of its job, no step of
\* that execution writes to the disk: the sibling generations have all
\* finished, or are stopped, before the failure is reported.
C39_NoWriteAfterFailureReported ==
  [][\A w \in DOMAIN workers :
       (workers[w].pc = "reported" /\ workers'[w] # workers[w]) =>
         disk' = disk]_vars

====
